---- MODULE Spec2Model ----
(***************************************************************************)
(* Connection lifecycle of the aio_trader market feeds (KiteFeed, DhanFeed,*)
(* FyersFeed) under the retry decorator of AbstractFeeder.                 *)
(*                                                                         *)
(* One feed instance runs; a second one is kept in `peer` for PairSpec.     *)
(* The venue, the shared-session flag, the                                 *)
(* parse_data flag, the validity of the Fyers token and the max_retries    *)
(* parameter of the decorator are chosen in Init and never change.  The    *)
(* network (outcome of ws_connect, inbound frames, peer close) and the     *)
(* caller (connect, subscribe, unsubscribe, close) are nondeterministic.   *)
(* A send on an open websocket succeeds; a send on a missing or closed     *)
(* websocket raises.  ws_connect on a closed ClientSession raises          *)
(* RuntimeError (aiohttp).                                                 *)
(***************************************************************************)
EXTENDS Naturals, Integers, Sequences, FiniteSets, TLC

VARIABLES
    venue,          \* "kite" | "dhan" | "fyers": the AbstractFeeder subclass
    shared,         \* self._shared_session
    parse_data,     \* self.parse_data
    token_ok,       \* the Fyers access token decodes and is not expired
    max_retries,    \* max_retries parameter of @retry
    pc,             \* position of the connect() wrapper coroutine
    retries,        \* local `retries` of wrapper
    invoked,        \* number of times wrapper has called method(instance)
    waits,          \* sequence of the durations passed to asyncio.sleep
    ws,             \* self.ws: "none" (attribute missing) | "open" | "closed"
    connected,      \* self.connected
    session_closed, \* self.session.closed
    result,         \* how the wrapper returned
    active,         \* tracked subscription set of the feed
    ws_subs,        \* tokens the peer holds subscribed on the current websocket
    valid_token,    \* FyersFeed._valid_token has been set
    close_task,     \* a FyersFeed close() task is scheduled on the loop
    terminal_seen,  \* an in-band terminal signal has been received
    auth_acked,     \* FyersFeed.__auth_resp has processed an auth response "K"
    peer_closed,    \* the peer has closed the inbound stream
    decode_errors,  \* frames whose decoding raised
    frames,         \* inbound frames read by the receive loop
    on_tick_n,      \* on_tick calls
    on_connect_n,   \* on_connect calls
    on_error_n,     \* on_error calls
    calls,          \* subscribe/unsubscribe/close calls made by the caller
    closed_in_backoff, \* the caller's close() returned during a backoff sleep
    opened_after_close \* a websocket was opened after that close()

\* The subscription structures of the feeds, in the venue's own shape
VARIABLES
    subscribed_tokens,  \* KiteFeed.subscribed_tokens: set of <<token, mode>>
    has_subscribed,     \* DhanFeed: the attribute self.subscribed exists
    subscribed,         \* DhanFeed.subscribed: list of tuples
    symbol_token,       \* FyersFeed.symbol_token: its keys
    scrips_count,       \* FyersFeed.scrips_count: channel -> list, partial
    scrips_per_channel, \* FyersFeed.scrips_per_channel: channel -> list
    running_channels,   \* FyersFeed.running_channels
    active_channel,     \* FyersFeed.active_channel, 0 for None
    unsub_symbol,       \* FyersFeed.unsub_symbol
    call,               \* the last subscription call: operation and arguments
    raised,             \* the exception the last call raised, "none" if none
    errs,               \* codes passed to on_error by the last call
    out                 \* control frames sent by the last call, in order

lifeVars == <<venue, shared, parse_data, token_ok, max_retries, pc, retries,
              invoked, waits, ws, connected, session_closed, result, active,
              ws_subs, valid_token, close_task, terminal_seen, auth_acked,
              peer_closed, decode_errors, frames, on_tick_n, on_connect_n,
              on_error_n, calls, closed_in_backoff, opened_after_close>>

subVars == <<subscribed_tokens, has_subscribed, subscribed, symbol_token,
             scrips_count, scrips_per_channel, running_channels,
             active_channel, unsub_symbol, call, raised, errs, out>>

\* The state of the FyersFeed data-frame decoder
VARIABLES
    lite,               \* FyersFeed.lite
    ack_count,          \* FyersFeed.ack_count, set by the auth response
    update_count,       \* FyersFeed.update_count
    resp,               \* FyersFeed.resp: topic name -> cached record
    scrips_sym,         \* FyersFeed.scrips_sym: topic id -> topic name
    index_sym,          \* FyersFeed.index_sym
    dp_sym,             \* FyersFeed.dp_sym
    ticks               \* what the last data frame passed to on_tick, in order

codecVars == <<lite, ack_count, update_count, resp, scrips_sym, index_sym,
               dp_sym, ticks>>

\* The throttle gate of AsyncRequest
VARIABLES
    throttlers,         \* the list t of __apply_throttle: rate_limit, period
    clock,              \* time.monotonic(), in periods of the shortest unit
    times,              \* admissions: <<index of the throttler, time, task>>
    gate_pos,           \* per task: 0 no request, i inside `async with` of
                        \* throttler i, Len(t) + 1 past the gate, then done
    http_calls          \* the tasks whose request was handed to __req

gateVars == <<throttlers, clock, times, gate_pos, http_calls>>

\* A second instance of the feed class, constructed in the same process
VARIABLES
    peer                \* which instance it is, and the objects its
                        \* attributes are bound to

otherVars == <<gateVars, peer>>

vars == <<lifeVars, subVars, codecVars, otherVars>>

config == <<venue, shared, parse_data, token_ok, max_retries>>

----------------------------------------------------------------------------
\* Bounds of the model

MaxRetries == 7
MaxToken == 2
MaxFrames == 2
MaxCalls == 2
MaxTasks == 3

\* Program constants

DefaultMaxRetries == 5
base_wait == 2
max_wait == 60

Venues == {"kite", "dhan", "fyers"}
Tokens == 1..MaxToken
Tasks == 1..MaxTasks
RetryChoices == {1, DefaultMaxRetries, MaxRetries}

Min(a, b) == IF a < b THEN a ELSE b

----------------------------------------------------------------------------
\* retry: the backoff computation

\* the backoff without the max_wait cap
Wait_Uncapped(n) == base_wait * (2 ^ n)

Wait(n) == Min(base_wait * (2 ^ n), max_wait)

----------------------------------------------------------------------------
\* close(): the state of the instance after close() has run.
\* w = self.ws, c = self.connected, sc = self.session.closed, a = active set

\* did = what close() awaits, in order: "send" a frame, "ws.close",
\* "session.close"

\* if self.session and not self.session.closed: await self.session.close()
SessionClose(sc) == IF ~shared /\ ~sc THEN <<"session.close">> ELSE <<>>

\* close() without the _shared_session test
KiteClose_ClosesShared(w, c, sc, a) ==
    [ws        |-> IF w = "open" THEN "closed" ELSE w,
     connected |-> FALSE,
     session   |-> TRUE,
     active    |-> a,
     did       |-> (IF w = "open" THEN <<"ws.close">> ELSE <<>>)
                       \o (IF sc THEN <<>> ELSE <<"session.close">>)]

KiteClose(w, c, sc, a) ==
    \* KiteFeed.subscribed: class attribute, never assigned by the feed
    LET KiteSubscribed == {}
    IN
    [ws        |-> IF w = "open" THEN "closed" ELSE w,
     connected |-> FALSE,
     session   |-> IF shared THEN sc ELSE TRUE,
     active    |-> IF w = "open" /\ KiteSubscribed # {} THEN {} ELSE a,
     did       |-> (IF w = "open"
                    THEN (IF KiteSubscribed # {} THEN <<"send">> ELSE <<>>)
                             \o <<"ws.close">>
                    ELSE <<>>) \o SessionClose(sc)]

\* a close() that sends its disconnect request whatever the connection state
DhanClose_Unguarded(w, c, sc, a) ==
    [ws        |-> IF w = "open" THEN "closed" ELSE w,
     connected |-> FALSE,
     session   |-> IF shared THEN sc ELSE TRUE,
     active    |-> a,
     did       |-> <<"send", "send", "ws.close">> \o SessionClose(sc)]

DhanClose(w, c, sc, a) ==
    [ws        |-> IF c /\ w = "open" THEN "closed" ELSE w,
     connected |-> FALSE,
     session   |-> IF shared THEN sc ELSE TRUE,
     active    |-> a,
     did       |-> (IF c /\ w = "open"
                    THEN <<"send", "send", "ws.close">> ELSE <<>>)
                       \o SessionClose(sc)]

\* a close() that returns without touching the instance
Close_Skipped(w, c, sc, a) ==
    [ws |-> w, connected |-> c, session |-> sc, active |-> a, did |-> <<>>]

Close(w, c, sc, a) ==
    LET FyersClose ==
            [ws        |-> IF c /\ w = "open" THEN "closed" ELSE w,
             connected |-> FALSE,
             session   |-> IF shared THEN sc ELSE TRUE,
             active    |-> a,
             did       |-> (IF c /\ w = "open" THEN <<"ws.close">> ELSE <<>>)
                               \o SessionClose(sc)]
    IN
    CASE venue = "kite"  -> KiteClose(w, c, sc, a)
      [] venue = "dhan"  -> DhanClose(w, c, sc, a)
      [] venue = "fyers" -> FyersClose

\* the effect of `await instance.close()` on the instance
DoClose ==
    LET r == Close(ws, connected, session_closed, active) IN
    /\ ws' = r.ws
    /\ connected' = r.connected
    /\ session_closed' = r.session
    /\ active' = r.active

----------------------------------------------------------------------------
\* The receive loop: what one inbound frame does.
\*   "tick"     on_tick is called, the loop continues
\*   "skip"     nothing is delivered, the loop continues
\*   "raise"    decoding raises, the exception leaves connect()
\*   "return"   connect() returns from inside the loop
\*   "authfail" a close() task is scheduled, the loop continues

FrameKinds(v) ==
    LET FyersFrames == {"auth_ok", "auth_fail", "data", "unknown_type", "truncated"}
    IN
    LET DhanFrames == {"ticker", "disconnect", "unknown_tag", "truncated"}
    IN
    LET KiteFrames == {"ping", "ltp", "text", "malformed"}
    IN
    CASE v = "kite"  -> KiteFrames
      [] v = "dhan"  -> DhanFrames
      [] v = "fyers" -> FyersFrames

KiteOnFrame(p, f) ==
    IF f = "ping" THEN "skip"
    ELSE IF ~p THEN "tick"
    ELSE CASE f = "ltp"       -> "tick"
           [] f = "text"      -> "skip"
           [] f = "malformed" -> "raise"

DhanOnFrame(p, f) ==
    \* DhanFeed._process_disconnect: the code is unpacked as an integer and
    \* looked up among the string keys "805".."809", so the lookup never hits
    \* and the function returns None without touching the connection.
    LET DhanProcessDisconnect == "tick"
    IN
    IF ~p THEN "return"
    ELSE CASE f = "ticker"      -> "tick"
           [] f = "disconnect"  -> DhanProcessDisconnect
           [] f = "unknown_tag" -> "raise"
           [] f = "truncated"   -> "raise"

FyersOnFrame(p, f) ==
    LET FyersAuthResp == IF f = "auth_ok" THEN "skip" ELSE "authfail"
    IN
    IF ~p THEN "return"
    ELSE CASE f = "truncated"    -> "raise"
           [] f = "unknown_type" -> "skip"
           [] f = "data"         -> "tick"
           [] f \in {"auth_ok", "auth_fail"} -> FyersAuthResp

OnFrame(v, p, f) ==
    CASE v = "kite"  -> KiteOnFrame(p, f)
      [] v = "dhan"  -> DhanOnFrame(p, f)
      [] v = "fyers" -> FyersOnFrame(p, f)

----------------------------------------------------------------------------
\* The subscription structures after construction

Channels == {11, 12}

NoCall == [op |-> "none", arg |-> <<>>, mode |-> "", channel |-> 0]

SubIdle ==
    /\ subscribed_tokens = {}
    /\ has_subscribed = FALSE
    /\ subscribed = <<>>
    /\ symbol_token = {}
    /\ scrips_count = [c \in {} |-> <<>>]
    /\ scrips_per_channel = [c \in Channels |-> <<>>]
    /\ running_channels = {}
    /\ active_channel = 0
    /\ unsub_symbol = <<>>
    /\ call = NoCall
    /\ raised = "none"
    /\ errs = <<>>
    /\ out = <<>>

\* a dict with no key
EmptyDict == [k \in {} |-> 0]

CodecIdle ==
    /\ lite = FALSE
    /\ ack_count = 0
    /\ update_count = 0
    /\ resp = EmptyDict
    /\ scrips_sym = EmptyDict
    /\ index_sym = EmptyDict
    /\ dp_sym = EmptyDict
    /\ ticks = <<>>

\* the attributes of a feed instance as __init__ leaves them
Constructed ==
    [subscribed_tokens |-> {}, has_subscribed |-> FALSE, subscribed |-> <<>>,
     symbol_token |-> {}, scrips_count |-> EmptyDict,
     scrips_per_channel |-> [c \in Channels |-> <<>>],
     running_channels |-> {}, active_channel |-> 0, unsub_symbol |-> <<>>,
     update_count |-> 0, resp |-> EmptyDict, scrips_sym |-> EmptyDict,
     index_sym |-> EmptyDict, dp_sym |-> EmptyDict]

\* the second instance, untouched since its construction
PeerIdle == peer = [instance |-> 2, attrs |-> Constructed]

OtherIdle ==
    \* no request has been made through AsyncRequest
    LET GateIdle ==
            /\ throttlers = <<>>
            /\ clock = 0
            /\ times = {}
            /\ gate_pos = [t \in Tasks |-> 0]
            /\ http_calls = {}
    IN
    GateIdle /\ PeerIdle

----------------------------------------------------------------------------
Init ==
    /\ venue \in Venues
    /\ shared \in BOOLEAN
    /\ parse_data \in BOOLEAN
    /\ token_ok \in (IF venue = "fyers" THEN BOOLEAN ELSE {TRUE})
    /\ max_retries \in RetryChoices
    /\ pc = "idle"
    /\ retries = 0
    /\ invoked = 0
    /\ waits = <<>>
    /\ ws = "none"
    /\ connected = FALSE
    /\ session_closed = FALSE
    /\ result = "none"
    /\ active = {}
    /\ ws_subs = {}
    /\ valid_token = FALSE
    /\ close_task = FALSE
    /\ terminal_seen = FALSE
    /\ auth_acked = FALSE
    /\ peer_closed = FALSE
    /\ decode_errors = 0
    /\ frames = 0
    /\ on_tick_n = 0
    /\ on_connect_n = 0
    /\ on_error_n = 0
    /\ calls = 0
    /\ closed_in_backoff = FALSE
    /\ opened_after_close = FALSE
    /\ SubIdle
    /\ CodecIdle
    /\ OtherIdle

----------------------------------------------------------------------------
\* The retry wrapper around connect()

\* the except clauses of wrapper, in order
Classify(e) ==
    CASE e = "ClientResponseError"   -> "terminal"
      [] e = "ClientConnectionError" -> "retry"
      [] OTHER                       -> "error"

\* a loop condition that admits one pass too many
MayRetry_OffByOne(r) == r <= max_retries

\* the loop condition of wrapper
MayRetry(r) == r < max_retries

\* except ClientConnectionError: compute the wait and sleep
Backoff ==
    /\ waits' = Append(waits, Wait(retries))
    /\ pc' = "sleep"

\* a wrapper exit that returns without closing the instance
ExitClosed_NoClose(res) ==
    /\ UNCHANGED <<ws, connected, session_closed, active>>
    /\ result' = res
    /\ pc' = "done"

\* `await instance.close()` followed by `return` in the wrapper
ExitClosed(res) ==
    /\ DoClose
    /\ result' = res
    /\ pc' = "done"

\* the caller awaits feed.connect()
CallConnect ==
    /\ pc = "idle"
    /\ pc' = "call"
    /\ retries' = 0
    /\ UNCHANGED <<config, invoked, waits, ws, connected, session_closed,
                   result, active, ws_subs, valid_token, close_task,
                   terminal_seen, auth_acked, peer_closed, decode_errors, frames,
                   on_tick_n, on_connect_n, on_error_n, calls,
                   closed_in_backoff, opened_after_close>>
    /\ UNCHANGED <<subVars, codecVars, otherVars>>

\* connect() up to the receive loop, when ws_connect returned an open socket
Established ==
    /\ ws' = "open"
    /\ connected' = TRUE
    /\ ws_subs' = {}
    /\ on_connect_n' = on_connect_n + 1
    /\ opened_after_close' = (opened_after_close \/ closed_in_backoff)
    /\ pc' = "recv"
    /\ UNCHANGED <<waits, session_closed, result, active>>

\* one pass of `while retries < max_retries`: method(instance) is invoked
Invoke ==
    \* what `await method(instance)` can do before the receive loop is entered
    LET ConnectOutcomes ==
            {"open", "closed_ws", "ClientResponseError", "ClientConnectionError",
             "Exception"}
    IN
    /\ pc = "call"
    /\ MayRetry(retries)
    /\ invoked' = invoked + 1
    /\ IF venue = "fyers" /\ ~token_ok
       THEN \* __access_token_to_hsmtoken reports and returns False; self.ws
            \* does not exist and `self.ws.closed` raises AttributeError
            /\ on_error_n' = on_error_n + 1
            /\ ExitClosed("error")
            /\ UNCHANGED <<waits, ws_subs, valid_token, on_connect_n,
                           opened_after_close>>
       ELSE /\ valid_token' = (valid_token \/ venue = "fyers")
            /\ on_error_n' = on_error_n
            /\ IF session_closed
               THEN /\ ExitClosed("error")
                    /\ UNCHANGED <<waits, ws_subs, on_connect_n,
                                   opened_after_close>>
               ELSE \E o \in ConnectOutcomes :
                    CASE o = "open" -> Established
                      [] o = "closed_ws" ->
                            /\ ws' = "closed"
                            /\ result' = "closed_ws"
                            /\ pc' = "done"
                            /\ UNCHANGED <<waits, connected, session_closed,
                                           active, ws_subs, on_connect_n,
                                           opened_after_close>>
                      [] OTHER ->
                            /\ IF Classify(o) = "retry"
                               THEN /\ Backoff
                                    /\ UNCHANGED <<ws, connected,
                                                   session_closed, result,
                                                   active>>
                               ELSE /\ ExitClosed(Classify(o))
                                    /\ UNCHANGED waits
                            /\ UNCHANGED <<ws_subs, on_connect_n,
                                           opened_after_close>>
    /\ UNCHANGED <<config, retries, close_task, terminal_seen, auth_acked, peer_closed,
                   decode_errors, frames, on_tick_n, calls,
                   closed_in_backoff>>
    /\ UNCHANGED <<subVars, codecVars, otherVars>>

\* asyncio.sleep(wait) returns; retries += 1
WakeUp ==
    /\ pc = "sleep"
    /\ retries' = retries + 1
    /\ pc' = "call"
    /\ UNCHANGED <<config, invoked, waits, ws, connected, session_closed,
                   result, active, ws_subs, valid_token, close_task,
                   terminal_seen, auth_acked, peer_closed, decode_errors, frames,
                   on_tick_n, on_connect_n, on_error_n, calls,
                   closed_in_backoff, opened_after_close>>
    /\ UNCHANGED <<subVars, codecVars, otherVars>>

\* the while loop ends: close and log "Exceeded maximum retry attempts"
Exhausted ==
    /\ pc = "call"
    /\ ~MayRetry(retries)
    /\ ExitClosed("exhausted")
    /\ UNCHANGED <<config, retries, invoked, waits, ws_subs, valid_token,
                   close_task, terminal_seen, auth_acked, peer_closed, decode_errors,
                   frames, on_tick_n, on_connect_n, on_error_n, calls,
                   closed_in_backoff, opened_after_close>>
    /\ UNCHANGED <<subVars, codecVars, otherVars>>

----------------------------------------------------------------------------
\* The receive loop of connect()

ClosesOnStreamEnd ==
    LET FyersStreamEnd == FALSE
    IN
    LET DhanStreamEnd == FALSE
    IN
    \* the code after `async for msg in self.ws`
    LET KiteStreamEnd == TRUE
    IN
    CASE venue = "kite"  -> KiteStreamEnd
      [] venue = "dhan"  -> DhanStreamEnd
      [] venue = "fyers" -> FyersStreamEnd

\* the loop ends on a websocket whose closed flag is w
StreamEnd(w) ==
    /\ IF ClosesOnStreamEnd
       THEN LET r == Close(w, connected, session_closed, active) IN
            /\ ws' = r.ws
            /\ connected' = r.connected
            /\ session_closed' = r.session
            /\ active' = r.active
       ELSE /\ ws' = w
            /\ UNCHANGED <<connected, session_closed, active>>
    /\ result' = "stream_end"
    /\ pc' = "done"

Receive(f) ==
    \* the frame FyersFeed.__auth_resp accepts as a successful login
    LET AuthAck(v_, f_) == v_ = "fyers" /\ f_ = "auth_ok"
    IN
    \* frames that carry an in-band terminal signal
    LET TerminalFrame(v_, f_) ==
            \/ v_ = "dhan" /\ f_ = "disconnect"
            \/ v_ = "fyers" /\ f_ = "auth_fail"
    IN
    /\ pc = "recv"
    /\ ws = "open"
    /\ frames < MaxFrames
    /\ frames' = frames + 1
    /\ terminal_seen' = (terminal_seen \/ (parse_data /\ TerminalFrame(venue, f)))
    /\ auth_acked' = (auth_acked \/ (parse_data /\ AuthAck(venue, f)))
    /\ LET o == OnFrame(venue, parse_data, f) IN
       CASE o = "tick" ->
               /\ on_tick_n' = on_tick_n + 1
               /\ UNCHANGED <<pc, ws, connected, session_closed, result,
                              active, close_task, decode_errors>>
         [] o = "skip" ->
               UNCHANGED <<pc, ws, connected, session_closed, result, active,
                           close_task, decode_errors, on_tick_n>>
         [] o = "authfail" ->
               /\ close_task' = TRUE
               /\ UNCHANGED <<pc, ws, connected, session_closed, result,
                              active, decode_errors, on_tick_n>>
         [] o = "return" ->
               /\ on_tick_n' = on_tick_n + 1
               /\ result' = "raw_return"
               /\ pc' = "done"
               /\ UNCHANGED <<ws, connected, session_closed, active,
                              close_task, decode_errors>>
         [] o = "raise" ->
               /\ decode_errors' = decode_errors + 1
               /\ ExitClosed("error")
               /\ UNCHANGED <<close_task, on_tick_n>>
    /\ UNCHANGED <<config, retries, invoked, waits, ws_subs, valid_token,
                   peer_closed, on_connect_n, on_error_n, calls,
                   closed_in_backoff, opened_after_close>>
    /\ UNCHANGED <<subVars, codecVars, otherVars>>

\* the peer closes the inbound stream: the websocket becomes closed and the
\* loop ends
PeerClose ==
    /\ pc = "recv"
    /\ ws = "open"
    /\ peer_closed' = TRUE
    /\ StreamEnd("closed")
    /\ UNCHANGED <<config, retries, invoked, waits, ws_subs, valid_token,
                   close_task, terminal_seen, auth_acked, decode_errors, frames,
                   on_tick_n, on_connect_n, on_error_n, calls,
                   closed_in_backoff, opened_after_close>>
    /\ UNCHANGED <<subVars, codecVars, otherVars>>

\* the loop finds the websocket closed by a close() of this side
LoopEnd ==
    /\ pc = "recv"
    /\ ws = "closed"
    /\ StreamEnd(ws)
    /\ UNCHANGED <<config, retries, invoked, waits, ws_subs, valid_token,
                   close_task, terminal_seen, auth_acked, peer_closed, decode_errors,
                   frames, on_tick_n, on_connect_n, on_error_n, calls,
                   closed_in_backoff, opened_after_close>>
    /\ UNCHANGED <<subVars, codecVars, otherVars>>

\* a ClientConnectionError leaves connect() after the connection was
\* established (raised by a send or by a consumer callback)
MidStreamError ==
    /\ pc = "recv"
    /\ ws = "open"
    /\ Classify("ClientConnectionError") = "retry"
    /\ Backoff
    /\ UNCHANGED <<config, retries, invoked, ws, connected, session_closed,
                   result, active, ws_subs, valid_token, close_task,
                   terminal_seen, auth_acked, peer_closed, decode_errors, frames,
                   on_tick_n, on_connect_n, on_error_n, calls,
                   closed_in_backoff, opened_after_close>>
    /\ UNCHANGED <<subVars, codecVars, otherVars>>

\* the close() task scheduled by FyersFeed.__auth_resp runs
CloseTask ==
    /\ close_task
    /\ close_task' = FALSE
    /\ DoClose
    /\ UNCHANGED <<config, pc, retries, invoked, waits, result, ws_subs,
                   valid_token, terminal_seen, auth_acked, peer_closed, decode_errors,
                   frames, on_tick_n, on_connect_n, on_error_n, calls,
                   closed_in_backoff, opened_after_close>>
    /\ UNCHANGED <<subVars, codecVars, otherVars>>

----------------------------------------------------------------------------
\* Calls made by the consumer while connect() runs

Inputs == SUBSET Tokens \ {{}}

CallerSteps ==
    /\ calls < MaxCalls
    /\ calls' = calls + 1

\* feed.close() called by the consumer
CallerClose ==
    /\ CallerSteps
    /\ DoClose
    /\ closed_in_backoff' = (closed_in_backoff \/ pc = "sleep")
    /\ UNCHANGED <<config, pc, retries, invoked, waits, result, ws_subs,
                   valid_token, close_task, terminal_seen, auth_acked, peer_closed,
                   decode_errors, frames, on_tick_n, on_connect_n,
                   on_error_n, opened_after_close>>
    /\ UNCHANGED <<subVars, codecVars, otherVars>>

\* KiteFeed.subscribe(S): a failed send closes the feed
KiteSubscribe(S) ==
    /\ venue = "kite"
    /\ CallerSteps
    /\ IF ws = "open"
       THEN /\ active' = active \cup S
            /\ ws_subs' = ws_subs \cup S
            /\ UNCHANGED <<ws, connected, session_closed>>
       ELSE /\ DoClose
            /\ UNCHANGED ws_subs
    /\ UNCHANGED <<config, pc, retries, invoked, waits, result, valid_token,
                   close_task, terminal_seen, auth_acked, peer_closed, decode_errors,
                   frames, on_tick_n, on_connect_n, on_error_n,
                   closed_in_backoff, opened_after_close>>
    /\ UNCHANGED <<subVars, codecVars, otherVars>>

\* KiteFeed.unsubscribe(S), S in ascending order: subscribed_tokens.pop
\* raises KeyError at the first token that is not tracked
KiteUnsubscribe(S) ==
    LET SetMin(S_) == CHOOSE x \in S_ : \A y \in S_ : x <= y
    IN
    /\ venue = "kite"
    /\ CallerSteps
    /\ IF ws = "open"
       THEN /\ ws_subs' = ws_subs \ S
            /\ active' = IF S \subseteq active
                         THEN active \ S
                         ELSE active \ {t \in S : t < SetMin(S \ active)}
            /\ UNCHANGED <<ws, connected, session_closed>>
       ELSE /\ DoClose
            /\ UNCHANGED ws_subs
    /\ UNCHANGED <<config, pc, retries, invoked, waits, result, valid_token,
                   close_task, terminal_seen, auth_acked, peer_closed, decode_errors,
                   frames, on_tick_n, on_connect_n, on_error_n,
                   closed_in_backoff, opened_after_close>>
    /\ UNCHANGED <<subVars, codecVars, otherVars>>

\* DhanFeed.subscribe(S): self.subscribed is replaced, then the frames are
\* sent (the send raises to the caller when there is no open websocket)
DhanSubscribe(S) ==
    /\ venue = "dhan"
    /\ CallerSteps
    /\ active' = S
    /\ ws_subs' = IF ws = "open" THEN ws_subs \cup S ELSE ws_subs
    /\ UNCHANGED <<config, pc, retries, invoked, waits, ws, connected,
                   session_closed, result, valid_token, close_task,
                   terminal_seen, auth_acked, peer_closed, decode_errors, frames,
                   on_tick_n, on_connect_n, on_error_n, closed_in_backoff,
                   opened_after_close>>
    /\ UNCHANGED <<subVars, codecVars, otherVars>>

\* DhanFeed.unsubscribe_symbols(S): the frames carry the remaining symbols
DhanUnsubscribe(S) ==
    /\ venue = "dhan"
    /\ CallerSteps
    /\ active' = active \ S
    /\ ws_subs' = IF ws = "open" THEN ws_subs \ (active \ S) ELSE ws_subs
    /\ UNCHANGED <<config, pc, retries, invoked, waits, ws, connected,
                   session_closed, result, valid_token, close_task,
                   terminal_seen, auth_acked, peer_closed, decode_errors, frames,
                   on_tick_n, on_connect_n, on_error_n, closed_in_backoff,
                   opened_after_close>>
    /\ UNCHANGED <<subVars, codecVars, otherVars>>

\* FyersFeed.subscribe / unsubscribe get past their first statements only
\* with _valid_token set, a websocket attribute and an open HTTP session
FyersReady == valid_token /\ ws # "none" /\ ~session_closed

\* FyersFeed.subscribe(S) on the default channel
FyersSubscribe(S) ==
    /\ venue = "fyers"
    /\ CallerSteps
    /\ IF FyersReady
       THEN /\ active' = active \cup S
            /\ ws_subs' = IF ws = "open" THEN ws_subs \cup S ELSE ws_subs
       ELSE UNCHANGED <<active, ws_subs>>
    /\ UNCHANGED <<config, pc, retries, invoked, waits, ws, connected,
                   session_closed, result, valid_token, close_task,
                   terminal_seen, auth_acked, peer_closed, decode_errors, frames,
                   on_tick_n, on_connect_n, on_error_n, closed_in_backoff,
                   opened_after_close>>
    /\ UNCHANGED <<subVars, codecVars, otherVars>>

\* FyersFeed.unsubscribe(S): frames are sent for the tracked symbols; the
\* tracked set itself changes only when the peer acknowledges
FyersUnsubscribe(S) ==
    /\ venue = "fyers"
    /\ CallerSteps
    /\ IF FyersReady /\ ws = "open"
       THEN ws_subs' = ws_subs \ (S \cap active)
       ELSE UNCHANGED ws_subs
    /\ UNCHANGED <<config, pc, retries, invoked, waits, ws, connected,
                   session_closed, result, active, valid_token, close_task,
                   terminal_seen, auth_acked, peer_closed, decode_errors, frames,
                   on_tick_n, on_connect_n, on_error_n, closed_in_backoff,
                   opened_after_close>>
    /\ UNCHANGED <<subVars, codecVars, otherVars>>

----------------------------------------------------------------------------
Next ==
    \/ CallConnect
    \/ Invoke
    \/ WakeUp
    \/ Exhausted
    \/ \E f \in FrameKinds(venue) : Receive(f)
    \/ PeerClose
    \/ LoopEnd
    \/ MidStreamError
    \/ CloseTask
    \/ CallerClose
    \/ \E S \in Inputs : KiteSubscribe(S)
    \/ \E S \in Inputs : KiteUnsubscribe(S)
    \/ \E S \in Inputs : DhanSubscribe(S)
    \/ \E S \in Inputs : DhanUnsubscribe(S)
    \/ \E S \in Inputs : FyersSubscribe(S)
    \/ \E S \in Inputs : FyersUnsubscribe(S)

Spec == Init /\ [][Next]_vars

\* the event loop runs the wrapper coroutine and a sleep always ends
Fairness ==
    /\ WF_vars(CallConnect)
    /\ WF_vars(Invoke)
    /\ WF_vars(WakeUp)
    /\ WF_vars(Exhausted)

FairSpec == Spec /\ Fairness

----------------------------------------------------------------------------
\* Subscription management in the venue's own structures: the request
\* lists, the control frames each call sends, and the exception it raises.

\* MaxListLen: the longest list of a small request
\* MaxGroups: a large request spans up to MaxGroups + 1 frames
MaxListLen == 2
MaxGroups == 2

Range(s) == {s[i] : i \in DOMAIN s}

ListsUpTo(U, n) == UNION {[1..k -> U] : k \in 1..n}

Frame(a, code, mode, v, ch) ==
    [a |-> a, code |-> code, mode |-> mode, v |-> v, channel |-> ch]

CallOf(op, arg, mode, ch) ==
    [op |-> op, arg |-> arg, mode |-> mode, channel |-> ch]

\* lifecycle and decoder state no subscription call touches
subFrame == <<config, pc, retries, invoked, waits, result, ws_subs,
              valid_token, close_task, terminal_seen, auth_acked,
              peer_closed, decode_errors, frames, on_tick_n, on_connect_n,
              on_error_n, closed_in_backoff, opened_after_close, codecVars,
              otherVars>>

conn == <<ws, connected, session_closed, active>>

\* seq[i : i + size] for i in range(0, len(seq), size)
Chunks_Whole(s, size) == IF s = <<>> THEN <<>> ELSE <<s>>

Chunks(s, size) ==
    [i \in 1..((Len(s) + size - 1) \div size) |->
        SubSeq(s, (i - 1) * size + 1, Min(i * size, Len(s)))]

\* list(set(s)): the distinct elements, here in order of first occurrence
RECURSIVE ListOfSetFrom(_, _, _)
ListOfSetFrom(s, i, acc) ==
    IF i > Len(s) THEN acc
    ELSE ListOfSetFrom(s, i + 1,
                       IF s[i] \in Range(acc) THEN acc ELSE Append(acc, s[i]))

ListOfSet(s) ==
    IF Cardinality(Range(s)) = Len(s) THEN s ELSE ListOfSetFrom(s, 1, <<>>)

----------------------------------------------------------------------------
\* KiteFeed: subscribed_tokens is a dict token -> mode

MODE_FULL == "full"
MODE_QUOTE == "quote"
MODE_LTP == "ltp"
Modes == {MODE_LTP, MODE_QUOTE, MODE_FULL}

KiteLists == ListsUpTo(Tokens, MaxListLen)

DictKeys(d) == {p[1] : p \in d}

\* d[k] = m
DictSet_Add(d, k, m) == d \cup {<<k, m>>}

DictSet(d, k, m) == {p \in d : p[1] # k} \cup {<<k, m>>}

\* for token in tokens: d[token] = m
RECURSIVE DictSetAll(_, _, _)
DictSetAll(d, L, m) ==
    IF L = <<>> THEN d ELSE DictSetAll(DictSet(d, Head(L), m), Tail(L), m)

\* for token in tokens: d.pop(token) -- KeyError at the first missing key
RECURSIVE DictPopAll(_, _)
DictPopAll(d, L) ==
    IF L = <<>> THEN [d |-> d, err |-> "none"]
    ELSE IF Head(L) \notin DictKeys(d) THEN [d |-> d, err |-> "KeyError"]
    ELSE DictPopAll({p \in d : p[1] # Head(L)}, Tail(L))

\* KiteFeed.subscribe(tokens)
Kite_subscribe(L) ==
    /\ venue = "kite"
    /\ CallerSteps
    /\ call' = CallOf("subscribe", L, "", 0)
    /\ raised' = "none"
    /\ errs' = <<>>
    /\ IF ws = "open"
       THEN /\ out' = <<Frame("subscribe", 0, "", L, 0)>>
            /\ subscribed_tokens' = DictSetAll(subscribed_tokens, L, MODE_QUOTE)
            /\ UNCHANGED conn
       ELSE /\ DoClose
            /\ out' = <<>>
            /\ UNCHANGED subscribed_tokens
    /\ UNCHANGED <<subFrame, has_subscribed, subscribed, symbol_token,
                   scrips_count, scrips_per_channel, running_channels,
                   active_channel, unsub_symbol>>

\* KiteFeed.unsubscribe(tokens)
Kite_unsubscribe(L) ==
    /\ venue = "kite"
    /\ CallerSteps
    /\ call' = CallOf("unsubscribe", L, "", 0)
    /\ errs' = <<>>
    /\ IF ws = "open"
       THEN LET r == DictPopAll(subscribed_tokens, L) IN
            /\ out' = <<Frame("unsubscribe", 0, "", L, 0)>>
            /\ subscribed_tokens' = r.d
            /\ raised' = r.err
            /\ UNCHANGED conn
       ELSE /\ DoClose
            /\ out' = <<>>
            /\ raised' = "none"
            /\ UNCHANGED subscribed_tokens
    /\ UNCHANGED <<subFrame, has_subscribed, subscribed, symbol_token,
                   scrips_count, scrips_per_channel, running_channels,
                   active_channel, unsub_symbol>>

\* dict(a="mode", v=[mode, tokens])
ModeFrame_Resubscribe(m, L) == Frame("subscribe", 0, m, L, 0)

ModeFrame(m, L) == Frame("mode", 0, m, L, 0)

\* KiteFeed.set_mode(mode, tokens)
Kite_set_mode(m, L) ==
    /\ venue = "kite"
    /\ CallerSteps
    /\ call' = CallOf("set_mode", L, m, 0)
    /\ raised' = "none"
    /\ errs' = <<>>
    /\ IF ws = "open"
       THEN /\ out' = <<ModeFrame(m, L)>>
            /\ subscribed_tokens' = DictSetAll(subscribed_tokens, L, m)
            /\ UNCHANGED conn
       ELSE /\ DoClose
            /\ out' = <<>>
            /\ UNCHANGED subscribed_tokens
    /\ UNCHANGED <<subFrame, has_subscribed, subscribed, symbol_token,
                   scrips_count, scrips_per_channel, running_channels,
                   active_channel, unsub_symbol>>

----------------------------------------------------------------------------
\* DhanFeed: subscribed is the list of (segment, id) or (segment, id, type)
\* tuples last stored by a call

NSE == 1
Ticker == 15
Quote == 17
Depth == 19
Full == 21
batch_size == 100

RequestCodes == <<Ticker, Quote, Depth, Full>>

exchange_map(ex) == IF ex = NSE THEN "NSE_EQ" ELSE "OTHER"

DhanLists ==
    LET DhanTuples ==
            {<<NSE, i>> : i \in Tokens}
                \cup {<<NSE, i, m>> : i \in Tokens, m \in Range(RequestCodes)}
    IN
    \* small requests: distinct tuples in a fixed order, and one tuple twice
    LET Rank(t) == t[2] * (Full + 1) + (IF Len(t) = 2 THEN 0 ELSE t[3])
    IN
    {L \in ListsUpTo(DhanTuples, MaxListLen) :
        \A i, j \in DOMAIN L : i < j => Rank(L[i]) < Rank(L[j])}
        \cup {<<t, t>> : t \in DhanTuples}

DhanBulkLists ==
    LET BulkSizes(size) ==
            {g * size + d : g \in 1..MaxGroups, d \in {-1, 0, 1}}
    IN
    \* n instruments of type Ticker followed by k of type Quote
    LET DhanBulk(n, k) ==
            [i \in 1..(n + k) |-> <<NSE, i, IF i <= n THEN Ticker ELSE Quote>>]
    IN
    {DhanBulk(n, k) : n \in BulkSizes(batch_size), k \in {0, 1}}

\* len(tuple_lengths) > 1
MixedArity_Off(L) == FALSE

MixedArity(L) == Cardinality({Len(L[i]) : i \in DOMAIN L}) > 1

\* (*tup, 15) if len(tup) == 2 else tup
Normalise(t) == IF Len(t) = 2 THEN t \o <<Ticker>> ELSE t

\* DhanFeed._validate_and_process_tuples: the groups in sending order, each
\* with its type, or the ValueError
ValidateAndProcess(L) ==
    LET P == ListOfSet([i \in DOMAIN L |-> Normalise(L[i])])
        Batch(m) == LET sel == SelectSeq(P, LAMBDA t : t[3] = m) IN
                    [i \in DOMAIN sel |-> <<sel[i][1], sel[i][2]>>]
        Groups(m) == LET g == Chunks(Batch(m), batch_size) IN
                     [i \in DOMAIN g |-> [code |-> m, v |-> g[i]]]
    IN  IF MixedArity(L) THEN [err |-> "ValueError", groups |-> <<>>]
        ELSE IF \E i \in DOMAIN P : P[i][3] \notin {Ticker, Quote, Full}
        THEN [err |-> "ValueError", groups |-> <<>>]
        ELSE [err |-> "none",
              groups |-> Groups(RequestCodes[1]) \o Groups(RequestCodes[2])
                         \o Groups(RequestCodes[3]) \o Groups(RequestCodes[4])]

DhanMessages(groups, offset) ==
    \* the request frame of one group; offset is 0 to subscribe, 1 to unsubscribe
    LET DhanMessage(g_, offset_) ==
            Frame("request", g_.code + offset_, "",
                  [i \in DOMAIN g_.v |-> <<exchange_map(g_.v[i][1]), g_.v[i][2]>>], 0)
    IN
    [i \in DOMAIN groups |-> DhanMessage(groups[i], offset)]

\* DhanFeed.subscribe(symbols)
Dhan_subscribe(L) ==
    \* what reaching for self.ws raises when a frame is to be sent
    LET SendError == IF ws = "none" THEN "AttributeError" ELSE "ConnectionResetError"
    IN
    /\ venue = "dhan"
    /\ CallerSteps
    /\ call' = CallOf("subscribe", L, "", 0)
    /\ errs' = <<>>
    /\ has_subscribed' = TRUE
    /\ subscribed' = L
    /\ LET p == ValidateAndProcess(L) IN
       /\ raised' = IF p.err # "none" THEN p.err
                    ELSE IF p.groups # <<>> /\ ws # "open" THEN SendError
                    ELSE "none"
       /\ out' = IF p.err = "none" /\ ws = "open"
                 THEN DhanMessages(p.groups, 0) ELSE <<>>
    /\ UNCHANGED <<subFrame, conn, subscribed_tokens, symbol_token,
                   scrips_count, scrips_per_channel, running_channels,
                   active_channel, unsub_symbol>>

\* DhanFeed.unsubscribe_symbols(symbols): the frames are handed to
\* create_task, so a closed websocket fails inside the task
Dhan_unsubscribe_symbols(L) ==
    /\ venue = "dhan"
    /\ CallerSteps
    /\ call' = CallOf("unsubscribe", L, "", 0)
    /\ errs' = <<>>
    /\ IF ~has_subscribed
       THEN /\ raised' = "AttributeError"
            /\ out' = <<>>
            /\ UNCHANGED <<has_subscribed, subscribed>>
       ELSE LET rest == SelectSeq(ListOfSet(subscribed),
                                  LAMBDA t : t \notin Range(L))
                p == ValidateAndProcess(rest)
            IN  /\ subscribed' = rest
                /\ UNCHANGED has_subscribed
                /\ raised' = IF p.err # "none" THEN p.err
                             ELSE IF p.groups # <<>> /\ ws = "none"
                             THEN "AttributeError"
                             ELSE "none"
                /\ out' = IF p.err = "none" /\ ws = "open"
                          THEN DhanMessages(p.groups, 1) ELSE <<>>
    /\ UNCHANGED <<subFrame, conn, subscribed_tokens, symbol_token,
                   scrips_count, scrips_per_channel, running_channels,
                   active_channel, unsub_symbol>>

\* DhanFeed.subscribe_symbols(symbols): self.subscribed becomes the stored
\* list without the symbols named, and the subscribe frames are built from
\* that list and handed to create_task
Dhan_subscribe_symbols(L) ==
    /\ venue = "dhan"
    /\ CallerSteps
    /\ call' = CallOf("subscribe_symbols", L, "", 0)
    /\ errs' = <<>>
    /\ IF ~has_subscribed
       THEN /\ raised' = "AttributeError"
            /\ out' = <<>>
            /\ UNCHANGED <<has_subscribed, subscribed>>
       ELSE LET rest == SelectSeq(ListOfSet(subscribed),
                                  LAMBDA t : t \notin Range(L))
                p == ValidateAndProcess(rest)
            IN  /\ subscribed' = rest
                /\ UNCHANGED has_subscribed
                /\ raised' = IF p.err # "none" THEN p.err
                             ELSE IF p.groups # <<>> /\ ws = "none"
                             THEN "AttributeError"
                             ELSE "none"
                /\ out' = IF p.err = "none" /\ ws = "open"
                          THEN DhanMessages(p.groups, 0) ELSE <<>>
    /\ UNCHANGED <<subFrame, conn, subscribed_tokens, symbol_token,
                   scrips_count, scrips_per_channel, running_channels,
                   active_channel, unsub_symbol>>

----------------------------------------------------------------------------
\* FyersFeed: symbols are converted to HSM tokens, tracked per channel

symbol_limit == 5000
subscribe_chunk == 1500
LIMIT_EXCEED_CODE == -99
INVALID_CODE == -300
UNSUBS_ERROR_CODE == 11012

\* SymbolConversion.symbol_to_hsmtoken for an equity symbol the server
\* knows: "sf|<segment>|<exchange token>"
HsmToken(sym) == <<"sf", sym>>

HsmTokens(L) == [i \in DOMAIN L |-> HsmToken(L[i])]

SymbolLists ==
    LET DupFree(s) == \A i, j \in DOMAIN s : s[i] = s[j] => i = j
    IN
    {L \in ListsUpTo(Tokens, MaxListLen) : DupFree(L)}

SymbolBulkLists ==
    LET SymbolRange(a, b) == [i \in 1..(b - a + 1) |-> a + i - 1]
    IN
    {SymbolRange(1, subscribe_chunk + d) : d \in {-1, 0, 1}}
        \cup {SymbolRange(1, symbol_limit), SymbolRange(1, symbol_limit + 1),
              SymbolRange(symbol_limit + 1, symbol_limit + 1)}

\* the limit test at the head of __symbol_conversion
LimitExceeded(spc, total) ==
    \/ spc > symbol_limit
    \/ (total > symbol_limit /\ spc + total > symbol_limit)

\* the limit test of subscribe() on the converted symbols
TotalExceeded_Off(tracked, new) == FALSE

TotalExceeded(tracked, new) == tracked + new > symbol_limit

\* for sym in lst: if sym not in keep: lst.remove(sym) -- the list shrinks
\* under the iterator, so the element after a removed one is skipped
RECURSIVE RemoveWhileIterating(_, _, _)
RemoveWhileIterating(lst, i, keep) ==
    IF i > Len(lst) THEN lst
    ELSE IF lst[i] \notin keep
    THEN RemoveWhileIterating(SubSeq(lst, 1, i - 1)
                                  \o SubSeq(lst, i + 1, Len(lst)), i + 1, keep)
    ELSE RemoveWhileIterating(lst, i + 1, keep)

\* lst.remove(x): the first occurrence
RemoveFirst(lst, x) ==
    LET i == CHOOSE k \in DOMAIN lst :
                 lst[k] = x /\ \A j \in 1..(k - 1) : lst[j] # x
    IN  SubSeq(lst, 1, i - 1) \o SubSeq(lst, i + 1, Len(lst))

FyersMessages(a, keys, ch) ==
    LET g == Chunks(keys, subscribe_chunk) IN
    [i \in DOMAIN g |-> Frame(a, 0, "", g[i], ch)]

\* __channel_resume_pause: the pause/resume frames are built only when the
\* websocket is closed, where the scheduled send fails
ChannelResumePause(ch) ==
    /\ running_channels' = running_channels \cup {ch}
    /\ active_channel' = ch

\* FyersFeed.subscribe(symbols, channel=ch)
Fyers_subscribe(L, ch) ==
    LET SetChannel(f_, ch_, lst_) ==
            [c \in DOMAIN f_ \cup {ch_} |-> IF c = ch_ THEN lst_ ELSE f_[c]]
    IN
    /\ venue = "fyers"
    /\ CallerSteps
    /\ call' = CallOf("subscribe", L, "", ch)
    /\ UNCHANGED <<subFrame, conn, subscribed_tokens, has_subscribed,
                   subscribed, unsub_symbol>>
    /\ IF ~valid_token \/ ws = "none"
       THEN /\ raised' = "AttributeError"
            /\ errs' = <<>>
            /\ out' = <<>>
            /\ UNCHANGED <<symbol_token, scrips_count, scrips_per_channel,
                           running_channels, active_channel>>
       ELSE
       LET keys == HsmTokens(L)
           first == Chunks(keys, subscribe_chunk)[1]
       IN
       /\ ChannelResumePause(ch)
       /\ IF LimitExceeded(Len(scrips_per_channel[ch]), Len(L))
          THEN /\ errs' = <<LIMIT_EXCEED_CODE>>
               /\ raised' = "none"
               /\ out' = <<>>
               /\ UNCHANGED <<symbol_token, scrips_count, scrips_per_channel>>
          ELSE IF session_closed
          THEN /\ errs' = <<>>
               /\ raised' = "RuntimeError"
               /\ out' = <<>>
               /\ UNCHANGED <<symbol_token, scrips_count, scrips_per_channel>>
          ELSE IF TotalExceeded(Cardinality(symbol_token), Len(keys))
          THEN /\ errs' = <<LIMIT_EXCEED_CODE>>
               /\ raised' = "none"
               /\ out' = <<>>
               /\ UNCHANGED <<symbol_token, scrips_count, scrips_per_channel>>
          ELSE /\ errs' = <<>>
               /\ symbol_token' = symbol_token \cup Range(keys)
               /\ scrips_count' = SetChannel(scrips_count, ch, keys)
               /\ IF ws = "open"
                  THEN /\ scrips_per_channel' =
                             [scrips_per_channel EXCEPT ![ch] = @ \o keys]
                       /\ out' = FyersMessages("subscribe", keys, ch)
                       /\ raised' = "none"
                  ELSE /\ scrips_per_channel' =
                             [scrips_per_channel EXCEPT ![ch] = @ \o first]
                       /\ out' = <<>>
                       /\ raised' = "ConnectionResetError"

\* FyersFeed.channel_resume(channel): the pause and resume frames are only
\* built when self.ws.closed holds, and their send tasks then fail
Fyers_channel_resume(ch) ==
    /\ venue = "fyers"
    /\ CallerSteps
    /\ call' = CallOf("channel_resume", <<>>, "", ch)
    /\ errs' = <<>>
    /\ out' = <<>>
    /\ IF ws = "none"
       THEN /\ raised' = "AttributeError"
            /\ UNCHANGED <<running_channels, active_channel>>
       ELSE /\ raised' = "none"
            /\ ChannelResumePause(ch)
    /\ UNCHANGED <<subFrame, conn, subscribed_tokens, has_subscribed,
                   subscribed, symbol_token, scrips_count,
                   scrips_per_channel, unsub_symbol>>

\* FyersFeed.unsubscribe(symbols, channel=ch)
Fyers_unsubscribe(L, ch) ==
    /\ venue = "fyers"
    /\ CallerSteps
    /\ call' = CallOf("unsubscribe", L, "", ch)
    /\ UNCHANGED <<subFrame, conn, subscribed_tokens, has_subscribed,
                   subscribed, symbol_token, scrips_count,
                   scrips_per_channel>>
    /\ IF ~valid_token \/ ws = "none"
       THEN /\ raised' = "AttributeError"
            /\ errs' = <<>>
            /\ out' = <<>>
            /\ UNCHANGED <<running_channels, active_channel, unsub_symbol>>
       ELSE
       LET keys == HsmTokens(L) IN
       /\ ChannelResumePause(ch)
       /\ IF LimitExceeded(Len(scrips_per_channel[ch]), Len(L))
          THEN /\ errs' = <<LIMIT_EXCEED_CODE>>
               /\ raised' = "none"
               /\ out' = <<>>
               /\ UNCHANGED unsub_symbol
          ELSE IF session_closed
          THEN /\ errs' = <<>>
               /\ raised' = "RuntimeError"
               /\ out' = <<>>
               /\ UNCHANGED unsub_symbol
          ELSE IF ch \notin DOMAIN scrips_count
          THEN /\ errs' = <<>>
               /\ raised' = "KeyError"
               /\ out' = <<>>
               /\ unsub_symbol' = keys
          ELSE
          LET u == RemoveWhileIterating(keys, 1, Range(scrips_count[ch])) IN
          /\ unsub_symbol' = u
          /\ IF u = <<>>
             THEN /\ errs' = <<INVALID_CODE>>
                  /\ raised' = "none"
                  /\ out' = <<>>
             ELSE /\ errs' = <<>>
                  /\ raised' = IF ws = "open" THEN "none"
                               ELSE "ConnectionResetError"
                  /\ out' = IF ws = "open"
                            THEN FyersMessages("unsubscribe", u, ch)
                            ELSE <<>>

\* the symbols of unsub_symbol from position i on, as __unsubscribe_resp
\* removes them: st is symbol_token, spc is scrips_per_channel
RECURSIVE UnsubscribeAck(_, _, _)
UnsubscribeAck(i, st, spc) ==
    IF i > Len(unsub_symbol) THEN [st |-> st, spc |-> spc, err |-> "none"]
    ELSE
    LET sym == unsub_symbol[i]
        count == Cardinality({c \in running_channels : sym \in Range(spc[c])})
        spc2 == IF sym \in Range(spc[active_channel])
                THEN [spc EXCEPT ![active_channel] = RemoveFirst(@, sym)]
                ELSE spc
    IN  IF count = 1
        THEN IF sym \in st
             THEN UnsubscribeAck(i + 1, st \ {sym}, spc2)
             ELSE [st |-> st, spc |-> spc2, err |-> "KeyError"]
        ELSE UnsubscribeAck(i + 1, st, spc2)

\* the receive loop handles the peer's answer to an unsubscribe frame
Fyers_unsubscribe_resp(ok) ==
    /\ venue = "fyers"
    /\ parse_data
    /\ pc = "recv"
    /\ ws = "open"
    /\ call.op = "unsubscribe"
    /\ out # <<>>
    /\ call' = [call EXCEPT !.op = "unsubscribe_resp"]
    /\ out' = <<>>
    /\ UNCHANGED <<config, retries, invoked, waits, ws_subs, valid_token,
                   close_task, terminal_seen, auth_acked, peer_closed,
                   decode_errors, frames, on_tick_n, on_connect_n,
                   on_error_n, closed_in_backoff, opened_after_close, calls,
                   subscribed_tokens, has_subscribed, subscribed,
                   scrips_count, running_channels, active_channel,
                   unsub_symbol, codecVars, otherVars>>
    /\ IF ok
       THEN LET r == UnsubscribeAck(1, symbol_token, scrips_per_channel) IN
            /\ symbol_token' = r.st
            /\ scrips_per_channel' = r.spc
            /\ raised' = r.err
            /\ errs' = <<>>
            /\ IF r.err = "none"
               THEN UNCHANGED <<conn, pc, result>>
               ELSE ExitClosed("error")
       ELSE /\ errs' = <<UNSUBS_ERROR_CODE>>
            /\ raised' = "none"
            /\ UNCHANGED <<conn, pc, result, symbol_token,
                           scrips_per_channel>>

----------------------------------------------------------------------------
\* The subscription calls on a feed that was never connected, that is
\* connected and receiving, or that was connected and then closed.

FeedIn(st) ==
    /\ ws = st
    /\ pc = (CASE st = "none" -> "idle" [] st = "open" -> "recv"
               [] OTHER -> "done")
    /\ connected = (st = "open")
    /\ session_closed = (st = "closed" /\ ~shared)
    /\ result = (IF st = "closed" THEN "stream_end" ELSE "none")
    /\ invoked = (IF st = "none" THEN 0 ELSE 1)
    /\ on_connect_n = (IF st = "none" THEN 0 ELSE 1)
    /\ valid_token = (venue = "fyers" /\ st # "none")
    /\ parse_data = TRUE
    /\ token_ok = TRUE
    /\ max_retries = DefaultMaxRetries
    /\ retries = 0
    /\ waits = <<>>
    /\ active = {}
    /\ ws_subs = {}
    /\ close_task = FALSE
    /\ terminal_seen = FALSE
    /\ auth_acked = FALSE
    /\ peer_closed = FALSE
    /\ decode_errors = 0
    /\ frames = 0
    /\ on_tick_n = 0
    /\ on_error_n = 0
    /\ calls = 0
    /\ closed_in_backoff = FALSE
    /\ opened_after_close = FALSE

SubInit ==
    LET FeedStates == {"none", "open", "closed"}
    IN
    /\ venue \in Venues
    /\ shared \in BOOLEAN
    /\ \E st \in FeedStates : FeedIn(st)
    /\ SubIdle
    /\ CodecIdle
    /\ OtherIdle

SubNext ==
    \/ \E L \in KiteLists : Kite_subscribe(L)
    \/ \E L \in KiteLists : Kite_unsubscribe(L)
    \/ \E m \in Modes, L \in KiteLists : Kite_set_mode(m, L)
    \/ \E L \in DhanLists : Dhan_subscribe(L)
    \/ \E L \in DhanLists : Dhan_unsubscribe_symbols(L)
    \/ \E L \in SymbolLists, ch \in Channels : Fyers_subscribe(L, ch)
    \/ \E L \in SymbolLists, ch \in Channels : Fyers_unsubscribe(L, ch)
    \/ \E ch \in Channels : Fyers_channel_resume(ch)
    \/ \E ok \in BOOLEAN : Fyers_unsubscribe_resp(ok)

SubSpec == SubInit /\ [][SubNext]_vars

\* the three DhanFeed subscription calls
DhanNext ==
    \/ \E L \in DhanLists : Dhan_subscribe(L)
    \/ \E L \in DhanLists : Dhan_subscribe_symbols(L)
    \/ \E L \in DhanLists : Dhan_unsubscribe_symbols(L)

DhanSpec == SubInit /\ [][DhanNext]_vars

\* subscribe on a connected feed, with requests long enough to span several
\* frames or to reach the symbol limit.

BulkInit ==
    /\ venue \in {"dhan", "fyers"}
    /\ shared = FALSE
    /\ FeedIn("open")
    /\ SubIdle
    /\ CodecIdle
    /\ OtherIdle

BulkNext ==
    \/ \E L \in DhanBulkLists : Dhan_subscribe(L)
    \/ \E L \in SymbolBulkLists, ch \in Channels : Fyers_subscribe(L, ch)

BulkSpec == BulkInit /\ [][BulkNext]_vars

----------------------------------------------------------------------------
\* FyersFeed.__datafeed_resp: the cache of records per topic and the ticks
\* passed to on_tick.

MaxFields == 2
MaxRecords == 1

Sentinel == -2147483647 - 1
SNAPSHOT == 83
FULL_UPDATE == 85
LITE_UPDATE == 76

Kinds == {"sf", "if", "dp"}
TopicIds == 1..MaxToken
\* the topic name of a kind: "<kind>|<segment>|<exchange token>"
TopicName(k) == <<k, 1>>

\* d[k] = v
Put(d, k, v) == (k :> v) @@ d

\* maps.data_val, maps.index_val, maps.depth_value: the key of field index i
\* of a record
FieldKey(i) == i

\* maps.lite_val: the value fields a lite-mode tick carries
LiteVal == {FieldKey(0)}

\* data frames: scrip_count records of one type with the same payload, each
\* for a topic id
DataFrames ==
    \* one record of a data frame; vals[i + 1] is the raw value of field i
    LET Records ==
            LET Values == {Sentinel, 1, 2}
            IN
            [type : {SNAPSHOT}, kind : Kinds, id : TopicIds,
             vals : [1..MaxFields -> Values]]
                \cup [type : {FULL_UPDATE}, kind : {""}, id : TopicIds,
                      vals : UNION {[1..n -> Values] : n \in 1..MaxFields}]
                \cup [type : {LITE_UPDATE}, kind : {""}, id : TopicIds,
                      vals : [1..1 -> Values]]
    IN
    UNION {{[i \in 1..n |-> [r EXCEPT !.id = ids[i]]] :
               r \in {x \in Records : x.id = 1}, ids \in [1..n -> TopicIds]} :
           n \in 1..MaxRecords}

\* the record is not handed to on_tick while its frame is handled
ResponseOutput_Deferred(D, name, data_type) == D

\* __response_output(data, data_type): the tick handed to on_tick, or the
\* KeyError of reading a lite field the record does not hold
ResponseOutput(D, name, data_type) ==
    LET rec == D.resp[name] IN
    IF lite
    THEN IF LiteVal \subseteq DOMAIN rec
         THEN [D EXCEPT !.ticks = Append(@,
                  [type |-> data_type, name |-> name,
                   fields |-> [f \in LiteVal |-> rec[f]]])]
         ELSE [D EXCEPT !.err = "KeyError"]
    ELSE [D EXCEPT !.ticks = Append(@,
             [type |-> data_type, name |-> name, fields |-> rec])]

\* data_type == 83: bind the topic id, replace the cached record, emit it
Snapshot(D, r) ==
    \* the fields of a snapshot record that are not the sentinel
    LET SnapshotFields(vals) ==
            LET FieldIdx == 0..(MaxFields - 1)
            IN
            [i \in {j \in FieldIdx : vals[j + 1] # Sentinel} |-> vals[i + 1]]
    IN
    LET name == TopicName(r.kind)
        bound == CASE r.kind = "dp" ->
                         [D EXCEPT !.dp_sym = Put(@, r.id, name)]
                   [] r.kind = "if" ->
                         [D EXCEPT !.index_sym = Put(@, r.id, name)]
                   [] OTHER ->
                         [D EXCEPT !.scrips_sym = Put(@, r.id, name)]
        stored == [bound EXCEPT
                      !.resp = Put(@, name, SnapshotFields(r.vals))]
        data_type == CASE r.kind = "dp" -> "depth" [] r.kind = "if" -> "index"
                       [] OTHER -> "scrips"
    IN  IF name \notin symbol_token
        THEN [stored EXCEPT !.err = "KeyError"]
        ELSE ResponseOutput(stored, name, data_type)

\* value != -2147483648
NotSentinel(value) == value # Sentinel

\* one field of a full-mode update merged into a cached record:
\* the record and whether it changed
MergeField(rec, i, value, data_type) ==
    \* the sentinel test of the first branch of a full-mode update, per kind
    LET UpdateTest ==
        \* value != "-2147483648": an integer never equals the string
            LET NotSentinelString == TRUE
            IN
            IF data_type = "index" THEN NotSentinelString
            ELSE NotSentinel(value)
    IN
    IF FieldKey(i) \in DOMAIN rec /\ rec[FieldKey(i)] # value
          /\ UpdateTest
    THEN [rec |-> Put(rec, FieldKey(i), value), upd |-> TRUE]
    ELSE IF FieldKey(i) \notin DOMAIN rec /\ NotSentinel(value)
    THEN [rec |-> Put(rec, FieldKey(i), value), upd |-> TRUE]
    ELSE [rec |-> rec, upd |-> FALSE]

RECURSIVE MergeFields(_, _, _, _, _)
MergeFields(rec, vals, i, upd, data_type) ==
    IF i >= Len(vals) THEN [rec |-> rec, upd |-> upd]
    ELSE LET m == MergeField(rec, i, vals[i + 1], data_type) IN
         MergeFields(m.rec, vals, i + 1, upd \/ m.upd, data_type)

\* data_type == 85: merge the fields into the record of the topic the id is
\* bound to, emit the record when a field changed
FullUpdate(D, r) ==
    LET Apply(name, data_type) ==
            LET m == MergeFields(D.resp[name], r.vals, 0, FALSE, data_type)
                merged == [D EXCEPT !.resp = Put(@, name, m.rec)]
            IN  IF m.upd THEN ResponseOutput(merged, name, data_type)
                ELSE merged
    IN  IF r.id \in DOMAIN D.scrips_sym
        THEN Apply(D.scrips_sym[r.id], "scrips")
        ELSE IF r.id \in DOMAIN D.index_sym
        THEN Apply(D.index_sym[r.id], "index")
        ELSE IF r.id \in DOMAIN D.dp_sym
        THEN Apply(D.dp_sym[r.id], "depth")
        ELSE D

\* data_type == 76: the last traded price of a scrip or index topic
LiteUpdate(D, r) ==
    LET value == r.vals[1]
        Apply(name, data_type) ==
            IF FieldKey(0) \notin DOMAIN D.resp[name]
            THEN [D EXCEPT !.err = "KeyError"]
            ELSE IF value # D.resp[name][FieldKey(0)] /\ NotSentinel(value)
            THEN ResponseOutput(
                     [D EXCEPT !.resp = Put(@, name,
                                            Put(D.resp[name], FieldKey(0), value))],
                     name, data_type)
            ELSE D
    IN  IF r.id \in DOMAIN D.scrips_sym
        THEN Apply(D.scrips_sym[r.id], "scrips")
        ELSE IF r.id \in DOMAIN D.index_sym
        THEN Apply(D.index_sym[r.id], "index")
        ELSE D

\* the loop over scrip_count records: the type tag is read at offset 9, the
\* first record's, in every round, and a snapshot is read at fixed offsets
RECURSIVE DecodeRecords(_, _, _)
DecodeRecords(D, frame, i) ==
    IF i > Len(frame) \/ D.err # "none" THEN D
    ELSE LET data_type == frame[1].type
             next == CASE data_type = SNAPSHOT -> Snapshot(D, frame[1])
                       [] data_type = FULL_UPDATE -> FullUpdate(D, frame[i])
                       [] OTHER -> LiteUpdate(D, frame[i])
         IN  DecodeRecords(next, frame, i + 1)

\* the receive loop hands a data frame to __datafeed_resp
\* an acknowledgement for every data frame
AckDue_EveryFrame == ack_count > 0

\* self.update_count += 1; if self.update_count == self.ack_count: the
\* frame completes a group and is acknowledged
AckDue == ack_count > 0 /\ update_count + 1 = ack_count

Fyers_datafeed_resp(frame) ==
    \* the decoder's state while one frame is handled
    LET Decoder(r, s, x, d, t, e) ==
            [resp |-> r, scrips_sym |-> s, index_sym |-> x, dp_sym |-> d,
             ticks |-> t, err |-> e]
    IN
    /\ venue = "fyers"
    /\ parse_data
    /\ pc = "recv"
    /\ ws = "open"
    /\ frames < MaxFrames
    /\ frames' = frames + 1
    /\ call' = CallOf("datafeed", frame, "", 0)
    /\ errs' = <<>>
    /\ update_count' = IF ack_count = 0 \/ AckDue THEN 0 ELSE update_count + 1
    /\ out' = IF AckDue THEN <<Frame("ack", frames + 1, "", <<>>, 0)>>
              ELSE <<>>
    /\ LET D == DecodeRecords(
                    Decoder(resp, scrips_sym, index_sym, dp_sym, <<>>, "none"),
                    frame, 1)
       IN  /\ resp' = D.resp
           /\ scrips_sym' = D.scrips_sym
           /\ index_sym' = D.index_sym
           /\ dp_sym' = D.dp_sym
           /\ ticks' = D.ticks
           /\ on_tick_n' = on_tick_n + Len(D.ticks)
           /\ raised' = D.err
           /\ IF D.err = "none"
              THEN UNCHANGED <<conn, pc, result, decode_errors>>
              ELSE /\ decode_errors' = decode_errors + 1
                   /\ ExitClosed("error")
    /\ UNCHANGED <<config, retries, invoked, waits, ws_subs, valid_token,
                   close_task, terminal_seen, auth_acked, peer_closed,
                   on_connect_n, on_error_n, calls, closed_in_backoff,
                   opened_after_close, lite, ack_count>>
    /\ UNCHANGED <<subscribed_tokens, has_subscribed, subscribed,
                   symbol_token, scrips_count, scrips_per_channel,
                   running_channels, active_channel, unsub_symbol>>
    /\ UNCHANGED otherVars

\* a connected FyersFeed whose auth response has been handled and whose
\* topics are subscribed on channel 11
CodecInit ==
    LET Names == {TopicName(k) : k \in Kinds}
    IN
    LET AckCounts == {0, 2}
    IN
    /\ venue = "fyers"
    /\ shared = FALSE
    /\ FeedIn("open")
    /\ subscribed_tokens = {}
    /\ has_subscribed = FALSE
    /\ subscribed = <<>>
    /\ symbol_token = Names
    /\ \E order \in [1..Cardinality(Names) -> Names] :
          /\ Range(order) = Names
          /\ order[1][1] = "sf" /\ order[2][1] = "if"
          /\ scrips_count = (11 :> order)
          /\ scrips_per_channel = [c \in Channels |->
                                      IF c = 11 THEN order ELSE <<>>]
    /\ running_channels = {11}
    /\ active_channel = 11
    /\ unsub_symbol = <<>>
    /\ call = NoCall
    /\ raised = "none"
    /\ errs = <<>>
    /\ out = <<>>
    /\ lite \in BOOLEAN
    /\ ack_count \in AckCounts
    /\ update_count = 0
    /\ resp = EmptyDict
    /\ scrips_sym = EmptyDict
    /\ index_sym = EmptyDict
    /\ dp_sym = EmptyDict
    /\ ticks = <<>>
    /\ OtherIdle

CodecNext == \E frame \in DataFrames : Fyers_datafeed_resp(frame)

CodecSpec == CodecInit /\ [][CodecNext]_vars

\* data frames of two records of one type with the same payload
RecordNext ==
    LET single == {f \in DataFrames : Len(f) = 1}
        pairs == {p[1] \o p[2] :
                     p \in {q \in single \X single :
                               /\ q[1][1].type = q[2][1].type
                               /\ q[1][1].vals = q[2][1].vals}}
    IN  \E frame \in pairs : Fyers_datafeed_resp(frame)

RecordSpec == CodecInit /\ [][RecordNext]_vars

\* a connected FyersFeed in full mode that acknowledges no data frame
CacheInit == CodecInit /\ ~lite /\ ack_count = 0

\* the decoder's cache under data frames, unsubscribe calls and the venue's
\* answer to them
CacheNext ==
    \/ \E frame \in DataFrames : Fyers_datafeed_resp(frame)
    \/ \E L \in SymbolLists, ch \in Channels : Fyers_unsubscribe(L, ch)
    \/ \E ok \in BOOLEAN : Fyers_unsubscribe_resp(ok)

CacheSpec == CacheInit /\ [][CacheNext]_vars

\* the decoder's cache over the connections of one feed: data frames,
\* close(), and the loss of the transport followed by the wrapper's reconnect
ReconnectNext ==
    \/ \E frame \in DataFrames : Fyers_datafeed_resp(frame)
    \/ CallerClose
    \/ MidStreamError
    \/ WakeUp
    \/ Invoke
    \/ Exhausted

ReconnectSpec == CacheInit /\ [][ReconnectNext]_vars

----------------------------------------------------------------------------
\* Two instances of one feed class, both connected. The calls and the frames
\* are those of the acting instance: the first one until Switch, the second
\* one from then on.

\* the attributes of the acting instance
Own ==
    [subscribed_tokens |-> subscribed_tokens,
     has_subscribed |-> has_subscribed, subscribed |-> subscribed,
     symbol_token |-> symbol_token, scrips_count |-> scrips_count,
     scrips_per_channel |-> scrips_per_channel,
     running_channels |-> running_channels,
     active_channel |-> active_channel, unsub_symbol |-> unsub_symbol,
     update_count |-> update_count, resp |-> resp,
     scrips_sym |-> scrips_sym, index_sym |-> index_sym, dp_sym |-> dp_sym]

FeedAttrs == DOMAIN Constructed

\* subscribed_tokens bound in the class body, as `subscribed = {}` is
InstanceAttrs_TokensInClass == FeedAttrs \ {"subscribed_tokens"}

\* the attributes a method binds on self (`self.x = ...`), so that every
\* instance has an object of its own; an attribute bound in the class body
\* is one object for all instances
InstanceAttrs == FeedAttrs

\* the attributes of the other instance as that instance reads them
PeerView ==
    [x \in FeedAttrs |->
        IF x \in InstanceAttrs THEN peer.attrs[x] ELSE Own[x]]

\* the other instance becomes the acting one
Switch ==
    /\ pc = "recv"
    /\ ws = "open"
    /\ peer.instance = 2
    /\ peer' = [instance |-> 3 - peer.instance, attrs |-> Own]
    /\ subscribed_tokens' = peer.attrs.subscribed_tokens
    /\ has_subscribed' = peer.attrs.has_subscribed
    /\ subscribed' = peer.attrs.subscribed
    /\ symbol_token' = peer.attrs.symbol_token
    /\ scrips_count' = peer.attrs.scrips_count
    /\ scrips_per_channel' = peer.attrs.scrips_per_channel
    /\ running_channels' = peer.attrs.running_channels
    /\ active_channel' = peer.attrs.active_channel
    /\ unsub_symbol' = peer.attrs.unsub_symbol
    /\ update_count' = peer.attrs.update_count
    /\ resp' = peer.attrs.resp
    /\ scrips_sym' = peer.attrs.scrips_sym
    /\ index_sym' = peer.attrs.index_sym
    /\ dp_sym' = peer.attrs.dp_sym
    /\ UNCHANGED <<lifeVars, call, raised, errs, out, lite, ack_count, ticks,
                   gateVars>>

PairInit ==
    /\ venue \in Venues
    /\ shared = FALSE
    /\ FeedIn("open")
    /\ SubIdle
    /\ CodecIdle
    /\ OtherIdle

\* the data frames of the two instances: snapshots that set every field to
\* 1 and updates that set fields to 2
PairFrames ==
    {f \in DataFrames :
        \A i \in DOMAIN f : \A j \in DOMAIN f[i].vals :
           f[i].vals[j] = (IF f[i].type = SNAPSHOT THEN 1 ELSE 2)}

\* the calls of the two instances name one instrument each
One(lists) == {L \in lists : Len(L) = 1}

PairNext ==
    \/ \E L \in One(KiteLists) : Kite_subscribe(L)
    \/ \E L \in One(KiteLists) : Kite_unsubscribe(L)
    \/ \E m \in Modes, L \in One(KiteLists) : Kite_set_mode(m, L)
    \/ \E L \in One(DhanLists) : Dhan_subscribe(L)
    \/ \E L \in One(DhanLists) : Dhan_unsubscribe_symbols(L)
    \/ \E L \in One(SymbolLists), ch \in Channels : Fyers_subscribe(L, ch)
    \/ \E L \in One(SymbolLists), ch \in Channels : Fyers_unsubscribe(L, ch)
    \/ \E ok \in BOOLEAN : Fyers_unsubscribe_resp(ok)
    \/ \E frame \in PairFrames : Fyers_datafeed_resp(frame)
    \/ Switch

PairSpec == PairInit /\ [][PairNext]_vars

----------------------------------------------------------------------------
\* KiteFeed subscription calls over the connections of one feed: the calls,
\* close(), and the loss of the transport followed by the wrapper's reconnect

SendInit ==
    /\ venue = "kite"
    /\ shared \in BOOLEAN
    /\ FeedIn("open")
    /\ SubIdle
    /\ CodecIdle
    /\ OtherIdle

SendNext ==
    \/ \E L \in KiteLists : Kite_subscribe(L)
    \/ \E L \in KiteLists : Kite_unsubscribe(L)
    \/ \E m \in Modes, L \in KiteLists : Kite_set_mode(m, L)
    \/ CallerClose
    \/ MidStreamError
    \/ WakeUp
    \/ Invoke
    \/ Exhausted

SendSpec == SendInit /\ [][SendNext]_vars

----------------------------------------------------------------------------
\* KiteFeed._parse_binary: a binary message is a sequence of bytes,
\* <number of packets><packet length><packet>..., all integers big-endian.

EXCH_MAP ==
    [nse |-> 1, nfo |-> 2, cds |-> 3, bse |-> 4, bfo |-> 5, bcd |-> 6,
     mcx |-> 7, mcxsx |-> 8, indices |-> 9, bsecds |-> 6]

\* struct.unpack(">I" or ">H", bin[start:end])[0], start counted from 0
RECURSIVE UnpackInt(_, _, _)
UnpackInt(bin, start, end) ==
    IF end <= start THEN 0
    ELSE UnpackInt(bin, start, end - 1) * 256 + bin[end]

\* _split_packets: the packets of the message from offset j on, n to go
RECURSIVE SplitPackets(_, _, _)
SplitPackets(bin, j, n) ==
    IF n = 0 THEN <<>>
    ELSE LET packet_length == UnpackInt(bin, j, j + 2)
             end == j + 2 + packet_length
         IN  <<SubSeq(bin, j + 3, end)>> \o SplitPackets(bin, end, n - 1)

\* every segment priced in hundredths
Divisor_Hundredths(segment) == 100

\* the price divisor of a segment
Divisor(segment) ==
    IF segment = EXCH_MAP.cds THEN 10000000
    ELSE IF segment = EXCH_MAP.bcd THEN 10000
    ELSE 100

ParseBinary(bin) ==
    \* the tick of one packet; the packets of this model have the LTP or the
    \* quote length, and the quote branch unpacks its fields from bin[4:44],
    \* the bytes of the whole message
    LET ParsePacket(packet) ==
        \* a / b, kept as the pair of its operands
            LET Div(a, b) == [num |-> a, den |-> b]
            IN
            LET security_id == UnpackInt(packet, 0, 4)
                segment == security_id % 256
                tradable == segment # EXCH_MAP.indices
            IN  IF Len(packet) = 8
                THEN [tradable |-> tradable, mode |-> MODE_LTP,
                      instrument_token |-> security_id,
                      last_price |-> Div(UnpackInt(packet, 4, 8), Divisor(segment))]
                ELSE IF Len(packet) = 44
                THEN [tradable |-> tradable, mode |-> MODE_QUOTE,
                      instrument_token |-> security_id,
                      last_price |-> Div(UnpackInt(bin, 4, 8), Divisor(segment))]
                ELSE [tradable |-> tradable, mode |-> "none",
                      instrument_token |-> security_id, last_price |-> Div(0, 1)]
    IN
    LET packets == IF Len(bin) < 2 THEN <<>>
                   ELSE SplitPackets(bin, 2, UnpackInt(bin, 0, 2))
    IN  [i \in DOMAIN packets |-> ParsePacket(packets[i])]

\* messages of one LTP packet
LtpMessages ==
    LET PriceWords ==
            {<<0, 3, 208, 144>>, <<0, 0, 0, 0>>, <<0, 0, 0, 1>>, <<0, 0, 1, 0>>,
             <<0, 1, 0, 0>>, <<1, 0, 0, 0>>, <<1, 2, 3, 4>>, <<127, 255, 255, 255>>}
    IN
    \* the four bytes of instrument tokens and of prices fed to the parser
    LET TokenWords ==
            {<<0, 0, 5, 53>>, <<0, 0, 3, 53>>, <<0, 0, 1, 3>>, <<0, 0, 6, 3>>,
             <<0, 1, 0, 6>>, <<127, 255, 255, 9>>, <<0, 0, 0, 9>>, <<1, 2, 3, 4>>,
             <<3, 6, 0, 1>>}
    IN
    {<<0, 1, 0, 8>> \o t \o p : t \in TokenWords, p \in PriceWords}

\* the receive loop of KiteFeed.connect hands a binary message to
\* _parse_binary and its ticks to on_tick
Kite_parse_binary(bin) ==
    /\ venue = "kite"
    /\ parse_data
    /\ pc = "recv"
    /\ ws = "open"
    /\ frames < MaxFrames
    /\ frames' = frames + 1
    /\ call' = CallOf("parse_binary", bin, "", 0)
    /\ ticks' = ParseBinary(bin)
    /\ on_tick_n' = IF ParseBinary(bin) # <<>> THEN on_tick_n + 1
                    ELSE on_tick_n
    /\ UNCHANGED <<config, retries, invoked, waits, ws_subs, valid_token,
                   close_task, terminal_seen, auth_acked, peer_closed,
                   on_connect_n, on_error_n, calls, closed_in_backoff,
                   opened_after_close, conn, pc, result, decode_errors>>
    /\ UNCHANGED <<subscribed_tokens, has_subscribed, subscribed,
                   symbol_token, scrips_count, scrips_per_channel,
                   running_channels, active_channel, unsub_symbol, raised,
                   errs, out>>
    /\ UNCHANGED <<lite, ack_count, update_count, resp, scrips_sym,
                   index_sym, dp_sym, otherVars>>

\* a connected KiteFeed that parses its messages
ParseInit ==
    /\ venue = "kite"
    /\ shared = FALSE
    /\ FeedIn("open")
    /\ SubIdle
    /\ CodecIdle
    /\ OtherIdle

\* messages of two packets, each an LTP packet or a quote packet whose
\* fields after the price are zero
PacketMessages ==
    LET Words == {<<0, 0, 5, 53>>, <<0, 0, 1, 3>>}
        Packet(len, t, p) ==
            <<0, len>> \o t \o p \o [i \in 1..(len - 8) |-> 0]
    IN  {<<0, 2>> \o Packet(l1, t1, p1) \o Packet(l2, t2, p2) :
            l1 \in {8, 44}, l2 \in {8, 44}, t1 \in Words, t2 \in Words,
            p1 \in Words, p2 \in Words}

ParseNext ==
    \E bin \in LtpMessages \cup PacketMessages : Kite_parse_binary(bin)

ParseSpec == ParseInit /\ [][ParseNext]_vars

----------------------------------------------------------------------------
\* AsyncRequest: the throttle gate in front of every HTTP request.
\* Throttler(rate_limit, period) admits a caller when fewer than rate_limit
\* of its admissions are at most period old, and lets it sleep and look
\* again otherwise.

MaxTime == 3
MaxRate == 2

\* the admissions of throttler i that are at most its period old
Recent(i) ==
    {s \in times : s[1] = i /\ clock - s[2] <= throttlers[i].period}

\* a test that admits one caller too many
HasCapacity_OneMore(i) == Cardinality(Recent(i)) <= throttlers[i].rate_limit

\* `async with t`: the throttler has room for one more admission now
HasCapacity(i) == Cardinality(Recent(i)) < throttlers[i].rate_limit

\* get / post / put / delete / patch: t = throttlers or self.throttlers, then
\* __apply_throttle(t) starts; the tasks are numbered in the order of their
\* requests
Request(task) ==
    /\ gate_pos[task] = 0
    /\ \A u \in Tasks : u < task => gate_pos[u] # 0
    /\ gate_pos' = [gate_pos EXCEPT ![task] = 1]
    /\ UNCHANGED <<throttlers, clock, times, http_calls>>
    /\ UNCHANGED <<lifeVars, subVars, codecVars, peer>>

\* one round of `for t in throttlers: async with t: pass`: the throttler the
\* task stands at admits it and records the admission
Enter(task) ==
    LET i == gate_pos[task] IN
    /\ i \in 1..Len(throttlers)
    /\ HasCapacity(i)
    /\ times' = times \cup {<<i, clock, task>>}
    /\ gate_pos' = [gate_pos EXCEPT ![task] = i + 1]
    /\ UNCHANGED <<throttlers, clock, http_calls>>
    /\ UNCHANGED <<lifeVars, subVars, codecVars, peer>>

\* the loop is over: `return await self.__req(...)` performs the HTTP call
HttpCall(task) ==
    /\ gate_pos[task] = Len(throttlers) + 1
    /\ http_calls' = http_calls \cup {task}
    /\ gate_pos' = [gate_pos EXCEPT ![task] = Len(throttlers) + 2]
    /\ UNCHANGED <<throttlers, clock, times>>
    /\ UNCHANGED <<lifeVars, subVars, codecVars, peer>>

\* time passes while tasks sleep
Tick ==
    /\ clock < MaxTime
    /\ clock' = clock + 1
    /\ UNCHANGED <<throttlers, times, gate_pos, http_calls>>
    /\ UNCHANGED <<lifeVars, subVars, codecVars, peer>>

\* an AsyncRequest over a list of throttlers, before its first request
ThrottleInit ==
    \* the lists of throttlers a broker hands to AsyncRequest
    LET ThrottlerLists ==
            LET Windows ==
                    LET Throttler(rate_limit, period) == [rate_limit |-> rate_limit, period |-> period]
                    IN
                    {Throttler(l, p) : l \in 1..MaxRate, p \in 1..MaxRate}
            IN
            {<<>>} \cup {<<w>> : w \in Windows}
                \cup {<<v, w>> : v \in Windows, w \in Windows}
    IN
    /\ venue = "dhan"
    /\ shared = FALSE
    /\ FeedIn("none")
    /\ SubIdle
    /\ CodecIdle
    /\ PeerIdle
    /\ throttlers \in ThrottlerLists
    /\ clock = 0
    /\ times = {}
    /\ gate_pos = [t \in Tasks |-> 0]
    /\ http_calls = {}

ThrottleNext ==
    \/ \E task \in Tasks : Request(task)
    \/ \E task \in Tasks : Enter(task)
    \/ \E task \in Tasks : HttpCall(task)
    \/ Tick

ThrottleSpec == ThrottleInit /\ [][ThrottleNext]_vars

----------------------------------------------------------------------------
\* Properties

\* close() has run and nothing reopened the instance
InstanceClosed ==
    /\ ~connected
    /\ ws # "open"
    /\ (~shared => session_closed)

\* every invocation of connect so far failed with a ClientConnectionError
AllTransient == on_connect_n = 0 /\ Len(waits) = invoked

\* C1: a ClientResponseError raised by the wrapped connect stops the wrapper
\* at once: the wrapper has returned, the instance is closed, and from then
\* on connect is never invoked again, for every max_retries and after any
\* number of transient failures.
C1_TerminalStopsRetry ==
    /\ [](result = "terminal" => pc = "done" /\ InstanceClosed)
    /\ [][result = "terminal" => invoked' = invoked]_vars

C1_Witness ==
    /\ result = "terminal"
    /\ invoked > 1
    /\ invoked < max_retries

\* C2: with base_wait = 2 and max_wait = 60 the k-th wait (k from 0) is
\* min(2 * 2^k, 60): the waits are 2, 4, 8, 16, 32, 60, 60, ..., never above
\* max_wait and never decreasing.
C2_BackoffSequence ==
    \A k \in 1..Len(waits) :
        /\ waits[k] = (IF k <= 5 THEN <<2, 4, 8, 16, 32>>[k] ELSE 60)
        /\ waits[k] = Min(2 * (2 ^ (k - 1)), 60)
        /\ waits[k] <= 60
        /\ (k > 1 => waits[k] >= waits[k - 1])

C2_Witness == Len(waits) >= 7 /\ waits[6] = 60 /\ waits[7] = 60

C4_TerminalDisconnectFails ==
    (venue = "dhan" /\ terminal_seen) =>
        /\ pc = "done"
        /\ ~connected
        /\ ws = "closed"
        /\ retries = 0

\* C5: a frame whose decoding raises is dropped: the receive loop goes on
\* and connected, the websocket and the session are unchanged.
C5_DecodeErrorDropsFrame ==
    [][decode_errors' # decode_errors =>
          /\ pc' = "recv"
          /\ connected' = connected
          /\ ws' = ws
          /\ session_closed' = session_closed]_vars

\* C6: once a feed has ended after an in-band authentication rejection or
\* terminal disconnect code, the consumer has been notified through
\* on_error.
C6_TerminalNotifiesConsumer ==
    (terminal_seen /\ pc = "done") => on_error_n > 0

\* C7: a feed constructed with an injected session never closes it.
C7_InjectedSessionNeverClosed == shared => ~session_closed

C7_Witness ==
    /\ shared
    /\ pc = "done"
    /\ ws = "closed"
    /\ ~connected
    /\ calls > 0

\* C8: after close() was called during a backoff wait no new websocket is
\* opened.
C8_CloseCancelsReconnect == closed_in_backoff => ~opened_after_close

\* C9: when connect re-establishes the transport after a failure, the feed
\* itself has re-issued subscribe frames for the whole active subscription
\* set by the time it enters the receive loop.
C9_ResubscribeOnReconnect ==
    [][(on_connect_n >= 1 /\ on_connect_n' = on_connect_n + 1) =>
          active \subseteq ws_subs']_vars

\* C10: when the peer closes the inbound stream of a connected feed, connect
\* returns with connected = False, the websocket released and the session
\* closed when the feed owns it.
C10_PeerCloseDrains ==
    (peer_closed /\ pc = "done") => InstanceClosed

\* C11: in FyersFeed on_connect is called only after a successful auth
\* response has been processed, and never when authentication is rejected.
C11_OnConnectAfterAuth ==
    (venue = "fyers" /\ on_connect_n > 0) => (auth_acked /\ ~terminal_seen)

----------------------------------------------------------------------------
\* Properties of the subscription calls

\* the step is one call of the named operation
IsCall(op) == calls' = calls + 1 /\ call'.op = op

FrameItems(fs) == UNION {Range(fs[i].v) : i \in DOMAIN fs}

RECURSIVE SumLen(_)
SumLen(fs) == IF fs = <<>> THEN 0 ELSE Len(Head(fs).v) + SumLen(Tail(fs))

\* C12: a second subscribe with the same arguments, after a first one that
\* succeeded on a connected feed, leaves subscribed_tokens, subscribed,
\* scrips_per_channel and symbol_token as the first call left them.
C12_SubscribeIdempotent ==
    [][(IsCall("subscribe") /\ call' = call /\ ws = "open"
            /\ raised = "none" /\ errs = <<>>)
        => (/\ subscribed_tokens' = subscribed_tokens
            /\ subscribed' = subscribed
            /\ scrips_per_channel' = scrips_per_channel
            /\ symbol_token' = symbol_token)]_vars

\* the request names nothing that is tracked as subscribed
NotTracked(L) ==
    CASE venue = "kite" -> Range(L) \cap DictKeys(subscribed_tokens) = {}
      [] venue = "dhan" -> Range(L) \cap Range(subscribed) = {}
      [] OTHER -> Range(HsmTokens(L)) \cap symbol_token = {}

\* C13: on a connected feed, unsubscribing symbols none of which is
\* subscribed raises nothing, reports no error and leaves the subscription
\* state as it was, also when nothing was ever subscribed.
C13_UnsubscribeUnknownNoOp ==
    [][(IsCall("unsubscribe") /\ ws = "open" /\ NotTracked(call'.arg))
        => (/\ raised' = "none"
            /\ errs' = <<>>
            /\ subscribed_tokens' = subscribed_tokens
            /\ Range(subscribed') = Range(subscribed)
            /\ scrips_per_channel' = scrips_per_channel
            /\ symbol_token' = symbol_token)]_vars

\* the request type a stored tuple asks for
ModeOf(t) == Normalise(t)[3]

Named(S) == {<<exchange_map(t[1]), t[2]>> : t \in S}

\* C15: DhanFeed.unsubscribe_symbols(S) on a connected feed leaves
\* subscribed = old minus S, its frames name exactly the members of S that
\* were subscribed, and name no instrument that stays subscribed.
C15_UnsubscribeNamesRemoved ==
    [][(venue = "dhan" /\ IsCall("unsubscribe") /\ ws = "open"
            /\ has_subscribed /\ raised' = "none")
        => (/\ Range(subscribed') = Range(subscribed) \ Range(call'.arg)
            /\ FrameItems(out')
                  = Named(Range(subscribed) \cap Range(call'.arg))
            /\ FrameItems(out') \cap Named(Range(subscribed')) = {})]_vars

\* the frames of one request type hold its instruments, each once, in
\* ceil(m / size) frames of at most size instruments
Batched(fs, items, size) ==
    LET Ceil(a, b) == (a + b - 1) \div b
    IN
    /\ Len(fs) = Ceil(Cardinality(items), size)
    /\ \A i \in DOMAIN fs : Len(fs[i].v) <= size
    /\ SumLen(fs) = Cardinality(items)
    /\ FrameItems(fs) = items

\* C16: a subscribe of n distinct instruments that is accepted on a
\* connected feed sends, per request type with m instruments, ceil(m/100)
\* frames (Dhan) or ceil(n/1500) frames (Fyers), none above the ceiling,
\* and every instrument appears in exactly one frame.
C16_SubscribeBatches ==
    [][(IsCall("subscribe") /\ ws = "open" /\ raised' = "none"
            /\ errs' = <<>>
            /\ Cardinality(Range(call'.arg)) = Len(call'.arg))
        => IF venue = "dhan"
           THEN \A m \in Range(RequestCodes) :
                   Batched(SelectSeq(out', LAMBDA f : f.code = m),
                           Named({t \in Range(call'.arg) : ModeOf(t) = m}),
                           100)
           ELSE Batched(out', Range(HsmTokens(call'.arg)), 1500)]_vars

C16_Witness ==
    /\ venue = "dhan" /\ call.op = "subscribe" /\ raised = "none"
    /\ Len(call.arg) = batch_size + 2
    /\ Len(out) = 3
    /\ Len(out[1].v) = batch_size /\ Len(out[2].v) = 1 /\ out[3].code = Quote

\* C17: on a connected FyersFeed a subscribe whose symbols, together with
\* those in symbol_token, number more than 5000 reports LIMIT_EXCEED_CODE
\* through on_error, sends no frame and leaves symbol_token, scrips_count and
\* scrips_per_channel unchanged.
C17_LimitRejectsUpFront ==
    [][(venue = "fyers" /\ IsCall("subscribe") /\ ws = "open"
            /\ Cardinality(symbol_token \cup Range(HsmTokens(call'.arg)))
                  > 5000)
        => (/\ errs' = <<LIMIT_EXCEED_CODE>>
            /\ raised' = "none"
            /\ out' = <<>>
            /\ symbol_token' = symbol_token
            /\ scrips_count' = scrips_count
            /\ scrips_per_channel' = scrips_per_channel)]_vars

C17_Witness ==
    /\ venue = "fyers" /\ ws = "open" /\ call.op = "subscribe"
    /\ Cardinality(symbol_token) = symbol_limit
    /\ Len(call.arg) = 1
    /\ HsmToken(call.arg[1]) \notin symbol_token
    /\ errs = <<LIMIT_EXCEED_CODE>>
    /\ out = <<>>

\* a list with both 2-tuples and 3-tuples
Mixes(L) == \E i, j \in DOMAIN L : Len(L[i]) = 2 /\ Len(L[j]) = 3

\* C18: DhanFeed.subscribe of a list that mixes 2-tuples and 3-tuples
\* raises ValueError and sends no frame.
C18_MixedArityRejected ==
    [][(venue = "dhan" /\ IsCall("subscribe") /\ Mixes(call'.arg))
        => (raised' = "ValueError" /\ out' = <<>>)]_vars

C18_Witness ==
    /\ venue = "dhan" /\ ws = "open" /\ call.op = "subscribe"
    /\ Mixes(call.arg)
    /\ raised = "ValueError"
    /\ out = <<>>

\* C19: KiteFeed.set_mode(mode, tokens) on a connected feed sends exactly one
\* frame, a mode frame for the listed tokens; afterwards every listed token
\* is tracked in the new mode and every other token as before.
C19_SetModeUpdatesListed ==
    [][(venue = "kite" /\ IsCall("set_mode") /\ ws = "open")
        => (/\ Len(out') = 1
            /\ out'[1].a = "mode"
            /\ out'[1].mode = call'.mode /\ out'[1].v = call'.arg
            /\ \A t \in Range(call'.arg) :
                   {p \in subscribed_tokens' : p[1] = t} = {<<t, call'.mode>>}
            /\ {p \in subscribed_tokens' : p[1] \notin Range(call'.arg)}
                 = {p \in subscribed_tokens : p[1] \notin Range(call'.arg)})]_vars

C19_Witness ==
    /\ venue = "kite" /\ ws = "open" /\ calls = 2
    /\ call.op = "set_mode" /\ call.mode = MODE_FULL /\ call.arg = <<1>>
    /\ subscribed_tokens = {<<1, MODE_FULL>>, <<2, MODE_QUOTE>>}
    /\ Len(out) = 1

----------------------------------------------------------------------------
\* Properties of the data-frame decoder

\* C20: no tick passed to on_tick carries the sentinel -2147483648 as the
\* value of a field, and no frame replaces a cached value that is not the
\* sentinel by the sentinel, for scrip, index and depth topics alike.
C20_SentinelNeverSurfaces ==
    [][/\ \A i \in DOMAIN ticks' : \A f \in DOMAIN ticks'[i].fields :
              ticks'[i].fields[f] # Sentinel
       /\ \A n \in DOMAIN resp \cap DOMAIN resp' :
              \A f \in DOMAIN resp[n] \cap DOMAIN resp'[n] :
                 resp[n][f] # Sentinel => resp'[n][f] # Sentinel]_vars

\* the receive loop has handed a data frame of one of the types to the decoder
Decoded(types) ==
    /\ frames' = frames + 1
    /\ call'.op = "datafeed"
    /\ call'.arg[1].type \in types

\* the fields of the record cached under name that the step has set or changed
ChangedFields(name) ==
    {f \in DOMAIN resp'[name] :
        name \notin DOMAIN resp \/ f \notin DOMAIN resp[name]
            \/ resp[name][f] # resp'[name][f]}

\* C21: in full mode, the tick emitted for an update frame carries only the
\* fields the update changed (next to the identity of its topic), not the
\* whole cached record, and the tick emitted for a snapshot frame carries
\* every field of the record.
C21_UpdateTickOnlyChanged ==
    [][/\ (~lite /\ Decoded({FULL_UPDATE, LITE_UPDATE}))
            => \A i \in DOMAIN ticks' :
                  DOMAIN ticks'[i].fields \subseteq ChangedFields(ticks'[i].name)
       /\ (~lite /\ Decoded({SNAPSHOT}))
            => \A i \in DOMAIN ticks' :
                  DOMAIN ticks'[i].fields = DOMAIN resp'[ticks'[i].name]]_vars

\* the topics the topic id is bound to once the step is taken
BoundTo(id) ==
    {m[id] : m \in {x \in {scrips_sym', index_sym', dp_sym'} : id \in DOMAIN x}}

\* C22: the frames of a connection are handled one at a time in the order
\* they are read: on_tick is only called in the step that reads a frame,
\* once for every tick decoded from it and for a topic a record of that frame
\* names, and a record cached or changed by the frame has been handed to
\* on_tick when the step ends, so nothing of frame k is left to do when
\* frame k + 1 is read.
C22_FramesHandledInOrder ==
    [][/\ on_tick_n' # on_tick_n => Decoded({SNAPSHOT, FULL_UPDATE, LITE_UPDATE})
       /\ Decoded({SNAPSHOT, FULL_UPDATE, LITE_UPDATE})
            => /\ on_tick_n' = on_tick_n + Len(ticks')
               /\ \A i \in DOMAIN ticks' : \E j \in DOMAIN call'.arg :
                     ticks'[i].name \in BoundTo(call'.arg[j].id)
               /\ raised' = "none"
                    => \A n \in DOMAIN resp' :
                          ChangedFields(n) # {}
                             => \E i \in DOMAIN ticks' : ticks'[i].name = n]_vars

\* an update frame read after a snapshot frame, each handed to on_tick
C22_Witness ==
    /\ frames = 2 /\ on_tick_n = 2 /\ raised = "none"
    /\ call.op = "datafeed" /\ call.arg[1].type = FULL_UPDATE
    /\ Len(ticks) = 1

----------------------------------------------------------------------------
\* Properties of close() and of the state kept across connections

\* C23: when the consumer's close() closes an open websocket while the
\* active subscription set is not empty, an unsubscribe frame for the active
\* tokens is sent first: none of them is still subscribed on the venue's
\* side of the websocket when it is closed.
C23_CloseUnsubscribesFirst ==
    [][(calls' = calls + 1 /\ ws = "open" /\ ws' = "closed" /\ active # {})
          => active \cap ws_subs' = {}]_vars

\* the symbols of the acknowledged unsubscribe that no other running channel
\* holds
Removed ==
    {unsub_symbol[i] : i \in DOMAIN unsub_symbol} \
        UNION {Range(scrips_per_channel[c]) :
                  c \in running_channels \ {active_channel}}

\* C24: once the venue has acknowledged an unsubscribe, nothing is kept for a
\* removed symbol that no other running channel holds: it is no key of
\* symbol_token, it is not in the channel's scrips_per_channel list and it
\* has no cached record in resp.
C24_UnsubscribeAckPurges ==
    [][(call.op = "unsubscribe" /\ call'.op = "unsubscribe_resp"
           /\ errs' = <<>> /\ raised' = "none")
          => \A sym \in Removed :
                /\ sym \notin symbol_token'
                /\ sym \notin Range(scrips_per_channel'[active_channel])
                /\ sym \notin DOMAIN resp']_vars

\* C25: while the feed is not connected (after close(), or while the wrapper
\* waits to reconnect after the transport was lost) the topic bindings
\* scrips_sym, index_sym and dp_sym and the cached records are empty, so a
\* later connection starts without a binding of the previous one.
C25_BindingsInvalidatedOnDisconnect ==
    (~connected \/ ws # "open" \/ pc \in {"sleep", "call", "done"})
        => /\ scrips_sym = EmptyDict
           /\ index_sym = EmptyDict
           /\ dp_sym = EmptyDict
           /\ resp = EmptyDict

\* C26: the retry state is reset once connect() has established a
\* connection: a transient failure that ends the receive loop is handled as
\* attempt 0, the wrapper sleeps base_wait and the whole max_retries budget
\* is left.
C26_RetryResetOnSuccess ==
    [][(pc = "recv" /\ pc' = "sleep")
          => /\ retries' = 0
             /\ waits'[Len(waits')] = base_wait]_vars

----------------------------------------------------------------------------
\* Properties of the throttle gate

\* the admissions of throttler i within the period that starts at t0
AdmittedWithin(i, t0) ==
    {s \in times : s[1] = i /\ s[2] >= t0 /\ s[2] <= t0 + throttlers[i].period}

\* the task stands at a throttler that has no room for it
Suspended(task) ==
    /\ gate_pos[task] \in 1..Len(throttlers)
    /\ ~HasCapacity(gate_pos[task])

\* C27: a request's HTTP call is made only after every throttler of the list
\* has admitted the request, and for every throttler of the list the
\* admissions within any one period never exceed its rate limit.
C27_GateAdmitsWithinLimits ==
    /\ \A task \in http_calls : \A i \in 1..Len(throttlers) :
          \E s \in times : s[1] = i /\ s[3] = task
    /\ \A i \in 1..Len(throttlers) : \A t0 \in 0..clock :
          Cardinality(AdmittedWithin(i, t0)) <= throttlers[i].rate_limit

\* a request that went through two throttlers after a wait, while another
\* one still waits
C27_Witness ==
    /\ Len(throttlers) = 2
    /\ \E task \in http_calls : \E s \in times : s[3] = task /\ s[2] > 0
    /\ \E task \in Tasks : Suspended(task)

\* C28: a task that is suspended at a throttler of the list, waiting for
\* room, holds no admission of any throttler of the list.
C28_AcquireIsAtomic ==
    \A task \in Tasks :
       Suspended(task) => \A s \in times : s[3] # task

----------------------------------------------------------------------------
\* Properties of two instances

----------------------------------------------------------------------------
\* Properties of the Kite packet parser

\* the unsigned big-endian integer of four bytes
BigEndian(w) == w[1] * 16777216 + w[2] * 65536 + w[3] * 256 + w[4]

\* C30: a message of one 8-byte LTP packet decodes to one tick; its
\* instrument token is the big-endian integer of the packet's first four
\* bytes and its price the big-endian integer of the last four divided by
\* 10^7 for segment 3, by 10^4 for segment 6 and by 100 for any other
\* segment, the segment being the low byte of the token; token 1333 with a
\* raw price of 250000 gives 250000 / 100.
C30_LtpPacketDecodes ==
    (call.op = "parse_binary" /\ Len(call.arg) = 12) =>
       LET packet == SubSeq(call.arg, 5, 12)
           id == BigEndian(SubSeq(packet, 1, 4))
           raw == BigEndian(SubSeq(packet, 5, 8))
           segment == id % 256
       IN  /\ Len(ticks) = 1
           /\ ticks[1].instrument_token = id
           /\ ticks[1].last_price.num = raw
           /\ ticks[1].last_price.den =
                 (CASE segment = 3 -> 10000000 [] segment = 6 -> 10000
                    [] OTHER -> 100)
           /\ (id = 1333 /\ raw = 250000)
                 => ticks[1].last_price = [num |-> 250000, den |-> 100]

\* token 1333 at 2500.00, and a currency tick
C30_Witness ==
    /\ call.op = "parse_binary"
    /\ ticks[1].instrument_token = 1333
    /\ ticks[1].last_price = [num |-> 250000, den |-> 100]
    /\ frames = 1

\* C31: DhanFeed.subscribe_symbols(S) on a connected feed leaves subscribed
\* = old united with S, and the subscribe frames it schedules name the
\* instruments of S.
C31_SubscribeSymbolsAdds ==
    [][(venue = "dhan" /\ IsCall("subscribe_symbols") /\ ws = "open"
            /\ has_subscribed /\ raised' = "none")
        => (/\ Range(subscribed') = Range(subscribed) \cup Range(call'.arg)
            /\ FrameItems(out') = Named(Range(call'.arg)))]_vars

\* C32: a KiteFeed subscribe, unsubscribe or set_mode whose send fails (the
\* websocket is missing or closed) leaves subscribed_tokens as it was, leaves
\* connected = False, sends nothing and raises nothing.
C32_FailedSendLeavesTokens ==
    [][(venue = "kite" /\ ws # "open"
            /\ \E L \in KiteLists, m \in Modes :
                   \/ Kite_subscribe(L)
                   \/ Kite_unsubscribe(L)
                   \/ Kite_set_mode(m, L))
        => (/\ subscribed_tokens' = subscribed_tokens
            /\ connected' = FALSE
            /\ raised' = "none"
            /\ out' = <<>>)]_vars

\* an unsubscribe of a tracked token failed on a closed websocket after a
\* reconnect, the feed was still marked connected before the call
C32_Witness ==
    /\ venue = "kite" /\ ws = "closed" /\ ~connected
    /\ invoked = 2 /\ calls = 2
    /\ call.op = "unsubscribe" /\ call.arg = <<1>>
    /\ <<1, MODE_QUOTE>> \in subscribed_tokens
    /\ raised = "none" /\ out = <<>>

\* C33: a DhanFeed.subscribe call rejected by validation (tuples of mixed
\* arity, or a request type other than Ticker, Quote and Full) leaves
\* self.subscribed as it was before the call.
C33_RejectedSubscribeKeepsSet ==
    [][(venue = "dhan"
            /\ \E L \in DhanLists :
                  Dhan_subscribe(L) /\ ValidateAndProcess(L).err # "none")
        => (/\ subscribed' = subscribed
            /\ has_subscribed' = has_subscribed)]_vars

\* C34: close() called in any connection state (before connect, while
\* connected, after a previous close) leaves connected = False, awaits no
\* send and no close on a websocket that is missing or already closed, does
\* not close a session that is already closed, and a second close() right
\* after it awaits nothing and changes nothing.
C34_CloseIdempotent ==
    [][CallerClose =>
        LET r == Close(ws, connected, session_closed, active)
            again == Close(r.ws, r.connected, r.session, r.active)
        IN  /\ connected' = FALSE
            /\ ws # "open"
                  => /\ ws' = ws
                     /\ Range(r.did) \cap {"send", "ws.close"} = {}
            /\ session_closed
                  => /\ session_closed'
                     /\ "session.close" \notin Range(r.did)
            /\ again.did = <<>>
            /\ again.ws = ws' /\ again.connected = connected'
            /\ again.session = session_closed' /\ again.active = active']_vars

\* a KiteFeed that was never connected after two calls, each of which ran
\* close(): the second found the session already closed
C34_Witness ==
    /\ venue = "kite" /\ pc = "idle" /\ ws = "none"
    /\ calls = 2 /\ ~connected /\ session_closed

\* C35: with parse_data = False every inbound frame is passed to on_tick and
\* the receive loop goes on to the next frame.
C35_RawFramesAllDelivered ==
    [][(~parse_data /\ \E f \in FrameKinds(venue) : Receive(f))
        => (/\ on_tick_n' = on_tick_n + 1
            /\ pc' = "recv")]_vars

\* C36: a message of N packets decodes to N ticks in packet order, and
\* tick i takes its instrument token and its price from the bytes of
\* packet i (stated for the messages of one and of two packets).
C36_TickFromOwnPacket ==
    call.op = "parse_binary" =>
       LET bin == call.arg
           N == bin[1] * 256 + bin[2]
           first == 5
           second == first + (bin[3] * 256 + bin[4]) + 2
           At(o) == [token |-> BigEndian(SubSeq(bin, o, o + 3)),
                     price |-> BigEndian(SubSeq(bin, o + 4, o + 7))]
           packet == [i \in 1..N |-> IF i = 1 THEN At(first) ELSE At(second)]
       IN  /\ Len(ticks) = N
           /\ \A i \in 1..N :
                 /\ ticks[i].instrument_token = packet[i].token
                 /\ ticks[i].last_price.num = packet[i].price

\* C37: a data frame announcing k records is decoded as k records, record
\* i + 1 read where record i ended: a frame of snapshot records binds the
\* topic id of each of its records to its topic name, so afterwards every
\* id the frame names is bound to the name its record carries.
C37_EachRecordDecoded ==
    [][LET frame == call'.arg
           bound == scrips_sym' @@ index_sym' @@ dp_sym'
       IN  (/\ frames' = frames + 1
            /\ Fyers_datafeed_resp(frame)
            /\ frame[1].type = SNAPSHOT
            /\ raised' = "none")
           => \A i \in DOMAIN frame :
                 /\ frame[i].id \in DOMAIN bound
                 /\ \E j \in DOMAIN frame :
                       /\ frame[j].id = frame[i].id
                       /\ bound[frame[i].id] = TopicName(frame[j].kind)]_vars

\* C38: an update frame (full or lite) for a bound topic in which every
\* field equals the cached value of the record, or in which every field is
\* the sentinel, produces no on_tick call and leaves the cached record as it
\* was.
C38_NoChangeNoTick ==
    [][LET r == call'.arg[1]
           bound == scrips_sym @@ index_sym @@ dp_sym
           rec == resp[bound[r.id]]
           NoDiff == \A i \in DOMAIN r.vals :
                        /\ FieldKey(i - 1) \in DOMAIN rec
                        /\ rec[FieldKey(i - 1)] = r.vals[i]
           AllSentinel == \A i \in DOMAIN r.vals : r.vals[i] = Sentinel
       IN  (/\ Decoded({FULL_UPDATE, LITE_UPDATE})
            /\ r.id \in DOMAIN bound
            /\ NoDiff \/ AllSentinel)
           => (/\ ticks' = <<>>
               /\ on_tick_n' = on_tick_n
               /\ resp' = resp)]_vars

\* C39: with ack_count > 0 the feed acknowledges exactly the data frames
\* whose number is a multiple of ack_count, the acknowledgement carries the
\* number of that frame, and update_count counts the frames since the last
\* acknowledgement, so 0 <= update_count < ack_count after every frame.
C39_AckOncePerGroup ==
    [][(ack_count > 0 /\ Decoded({SNAPSHOT, FULL_UPDATE, LITE_UPDATE}))
        => (/\ update_count' = frames' % ack_count
            /\ 0 <= update_count' /\ update_count' < ack_count
            /\ out' = IF frames' % ack_count = 0
                      THEN <<Frame("ack", frames', "", <<>>, 0)>>
                      ELSE <<>>)]_vars

\* the second data frame completed a group of two and was acknowledged
C39_Witness ==
    /\ ack_count = 2 /\ frames = 2 /\ update_count = 0
    /\ call.op = "datafeed"
    /\ out = <<Frame("ack", 2, "", <<>>, 0)>>

\* C40: when subscribe, unsubscribe or channel_resume selects, on an open
\* websocket, a channel other than the active one, a pause frame for the
\* previously active channel is sent first, then a resume frame if the
\* selected channel was already running; afterwards the selected channel is
\* the active one and is among the running channels.
C40_ChannelSwitchPauses ==
    [][\A ch \in Channels :
          (/\ venue = "fyers" /\ ws = "open" /\ valid_token
           /\ active_channel # 0 /\ active_channel # ch
           /\ \/ Fyers_channel_resume(ch)
              \/ \E L \in SymbolLists :
                    Fyers_subscribe(L, ch) \/ Fyers_unsubscribe(L, ch))
          => (/\ Len(out') >= 1
              /\ out'[1] = Frame("pause", 0, "", <<>>, active_channel)
              /\ ch \in running_channels
                    => /\ Len(out') >= 2
                       /\ out'[2] = Frame("resume", 0, "", <<>>, ch)
              /\ active_channel' = ch
              /\ ch \in running_channels')]_vars
====
